---- MODULE Spec2Model ----
(***************************************************************************)
(* ADAM memory assistant: the SQLite store (src/src/storage/database.py)   *)
(* and the orchestrator's process_message (src/src/core/adam.py).          *)
(*                                                                         *)
(* Every DatabaseManager method opens its own connection to the database   *)
(* file, so callers that share the file (threads, server processes) run    *)
(* their store calls interleaved, one SQL statement-plus-commit at a time. *)
(* A writing statement and its commit are one step: SQLite lets no other   *)
(* connection write or see the change in between.  save_entity is two      *)
(* steps, its SELECT and its UPDATE/INSERT, because the SELECT runs        *)
(* outside the write transaction (sqlite3 opens it at the first DML).      *)
(***************************************************************************)
EXTENDS Integers, Sequences, FiniteSets, Bags, TLC

---------------------------------------------------------------------------
(* Bounds of the model *)

\* calls (process_message or a direct save_entity) started in one run
MaxCalls == 2

\* words per text given to the recognizer, categorizer and coach
MaxWords == 2

\* items of the context given to the coach
MaxContextItems == 4

\* readings of the clock while the components are called directly
MaxClock == 2

\* conversations written in the history specification: one more than the
\* default limit of get_conversation_history
MaxConversations == 11

\* save_entity calls in the entities specification
MaxSaves == 4

\* the greatest limit passed to get_entities
MaxLimit == 3

\* update_categories calls in the taxonomy specification
MaxUpdates == 2

\* blocks of equal conversations in a store of the retrieval specification
MaxBlocks == 2

\* conversations in a store of the retrieval specification: one more than
\* the entity scan and the keyword scan together reach
MaxStored == 71

\* concurrent callers of the store
Procs == {"t1", "t2"}

\* other_entity.get("id", "") of an entity that has no "id" key: ""
NoId == 0

\* Python's None / SQL NULL
None == <<>>

Sessions == {"s1"}

\* a session_id that is None or ""
NoSession == ""

---------------------------------------------------------------------------
(* Strings: Python's str and re on the characters of the model.  A text   *)
(* is a string; offsets are Python's, counted from 0.                     *)

UpperChars == "ABCDEFGHIJKLMNOPQRSTUVWXYZÁÉÍÓÚÑ"

LowerChars == "abcdefghijklmnopqrstuvwxyzáéíóúñ"

DigitChars == "0123456789"

\* the characters of a string, as a set
CharsOf(s) == { SubSeq(s, k, k) : k \in 1..Len(s) }

\* text[i] for a Python offset i
CharAt(text, i) == SubSeq(text, i + 1, i + 1)

\* text[i:j]
Slice(text, i, j) == SubSeq(text, i + 1, j)

\* str.lower() character by character: the upper-case letters and their
\* lower-case forms
LowerTable ==
    [c \in CharsOf(UpperChars) |->
        LET k == CHOOSE k \in 1..Len(UpperChars) : SubSeq(UpperChars, k, k) = c
        IN  SubSeq(LowerChars, k, k)]

\* str.upper() character by character
UpperTable ==
    [c \in CharsOf(LowerChars) |->
        LET k == CHOOSE k \in 1..Len(LowerChars) : SubSeq(LowerChars, k, k) = c
        IN  SubSeq(UpperChars, k, k)]

\* c.lower() of one character
LowerChar(c) == IF c \in DOMAIN LowerTable THEN LowerTable[c] ELSE c

\* c.upper() of one character
UpperChar(c) == IF c \in DOMAIN UpperTable THEN UpperTable[c] ELSE c

\* s.lower()
RECURSIVE LowerStr(_)
LowerStr(s) ==
    IF s = "" THEN ""
    ELSE LowerChar(SubSeq(s, 1, 1)) \o LowerStr(SubSeq(s, 2, Len(s)))

\* sub in s
Contains(sub, s) ==
    \E i \in 0..(Len(s) - Len(sub)) : Slice(s, i, i + Len(sub)) = sub

\* \w of re on str patterns: letters (accented ones too), digits and "_"
WordChars == CharsOf(UpperChars) \cup CharsOf(LowerChars)
                \cup CharsOf(DigitChars) \cup {"_"}

IsWordChar(c) == c \in WordChars

\* \b at offset i: exactly one of text[i-1], text[i] is a word character
WordBoundary(text, i) ==
    (i > 0 /\ IsWordChar(CharAt(text, i - 1)))
        # (i < Len(text) /\ IsWordChar(CharAt(text, i)))

\* \s
WhiteSpace == {" ", "\t", "\n", "\r", "\f"}

\* text.split() from offset i on, word being the characters of the word
\* under way
RECURSIVE SplitFrom(_, _, _)
SplitFrom(text, i, word) ==
    IF i >= Len(text) THEN (IF word = "" THEN <<>> ELSE <<word>>)
    ELSE IF CharAt(text, i) \in WhiteSpace
         THEN (IF word = "" THEN <<>> ELSE <<word>>) \o SplitFrom(text, i + 1, "")
         ELSE SplitFrom(text, i + 1, word \o CharAt(text, i))

\* text.split(): the words between runs of whitespace
Split(text) == SplitFrom(text, 0, "")

\* no upper limit of a repetition: +, {n,}
Unbounded == -1

\* regular expressions, as trees
ReSet(chars) == [k |-> "set", s |-> chars, neg |-> FALSE]

ReNot(chars) == [k |-> "set", s |-> chars, neg |-> TRUE]

ReB == [k |-> "b"]

ReCat(rs) == [k |-> "cat", rs |-> rs]

ReAlt(rs) == [k |-> "alt", rs |-> rs]

ReRep(r, lo, hi) == [k |-> "rep", r |-> r, lo |-> lo, hi |-> hi]

\* a literal string (re.escape)
ReLit(s) == ReCat([k \in 1..Len(s) |-> ReSet({SubSeq(s, k, k)})])

\* one character against a class under re.IGNORECASE: the character or one
\* of its case variants is in the class
InClass(c, r) ==
    (c \in r.s \/ LowerChar(c) \in r.s \/ UpperChar(c) \in r.s) # r.neg

\* the offsets at which a match of r started at offset i can end, in the
\* order the backtracking matcher tries them (greedy repetitions, leftmost
\* alternative first); the first one is the match re reports
RECURSIVE ReEnds(_, _, _), ReCatEnds(_, _, _, _), ReAltEnds(_, _, _, _),
          ReRepEnds(_, _, _, _), ReThen(_, _, _, _, _), ReAgain(_, _, _, _, _)
ReEnds(r, text, i) ==
    CASE r.k = "set" -> IF i < Len(text) /\ InClass(CharAt(text, i), r)
                        THEN <<i + 1>> ELSE <<>>
      [] r.k = "b" -> IF WordBoundary(text, i) THEN <<i>> ELSE <<>>
      [] r.k = "cat" -> ReCatEnds(r.rs, 1, text, i)
      [] r.k = "alt" -> ReAltEnds(r.rs, 1, text, i)
      [] r.k = "rep" -> ReRepEnds(r, text, i, 0)

ReCatEnds(rs, k, text, i) ==
    IF k > Len(rs) THEN <<i>>
    ELSE ReThen(ReEnds(rs[k], text, i), 1, rs, k + 1, text)

ReThen(ends, e, rs, k, text) ==
    IF e > Len(ends) THEN <<>>
    ELSE ReCatEnds(rs, k, text, ends[e]) \o ReThen(ends, e + 1, rs, k, text)

ReAltEnds(rs, k, text, i) ==
    IF k > Len(rs) THEN <<>>
    ELSE ReEnds(rs[k], text, i) \o ReAltEnds(rs, k + 1, text, i)

ReRepEnds(r, text, i, n) ==
    (IF r.hi = Unbounded \/ n < r.hi
     THEN ReAgain(ReEnds(r.r, text, i), 1, r, text, n + 1) ELSE <<>>)
    \o (IF n >= r.lo THEN <<i>> ELSE <<>>)

ReAgain(ends, e, r, text, n) ==
    IF e > Len(ends) THEN <<>>
    ELSE ReRepEnds(r, text, ends[e], n) \o ReAgain(ends, e + 1, r, text, n)

\* re.finditer(pattern, text, re.IGNORECASE): the matches <<start, end>>,
\* leftmost first, each search resuming where the last match ended
RECURSIVE FindIter(_, _, _)
FindIter(r, text, i) ==
    IF i > Len(text) THEN <<>>
    ELSE LET ends == ReEnds(r, text, i)
         IN  IF ends = <<>> THEN FindIter(r, text, i + 1)
             ELSE << <<i, ends[1]>> >>
                  \o FindIter(r, text, IF ends[1] > i THEN ends[1] ELSE i + 1)

---------------------------------------------------------------------------
(* Inputs.  A message is its text, its whitespace-separated words and the *)
(* list extract_entities returns for it (obtained by running              *)
(* EntityRecognizer.extract_entities on the text).                        *)

EmptyMeta == <<>>

DeadlineMeta == << <<"context", "deadline">> >>

Entity(n, t, s, m) == [name |-> n, type |-> t, start |-> s, metadata |-> m]

Messages ==
    << [text |-> "a", words |-> <<"a">>,
        entities |-> <<>>],
       [text |-> "Q1 Q2", words |-> <<"Q1", "Q2">>,
        entities |-> << Entity("Q1", "date", 0, EmptyMeta),
                        Entity("Q2", "date", 3, EmptyMeta) >>],
       [text |-> "Q1 Q1", words |-> <<"Q1", "Q1">>,
        entities |-> << Entity("Q1", "date", 0, EmptyMeta),
                        Entity("Q1", "date", 3, EmptyMeta) >>] >>

\* keyword in text.lower()
InLower(keyword, text) == Contains(keyword, LowerStr(text))

\* arguments of direct save_entity calls
EntityKeys == { <<"Q1", "date">> }

\* the (name, type) pairs of the model
AllKeys ==
    EntityKeys \cup
    UNION { { <<Messages[m].entities[k].name, Messages[m].entities[k].type>> :
                k \in DOMAIN Messages[m].entities } : m \in DOMAIN Messages }

Metadatas == { EmptyMeta, DeadlineMeta }

---------------------------------------------------------------------------
VARIABLES
    conversations,  \* table conversations, in rowid order
    entities,       \* table entities, in rowid order
    relationships,  \* table relationships: a bag of rows (the table has no
                    \* key and no query orders it)
    clock,          \* datetime.now(): the value of the next reading that is
                    \* stored; a reading no row can receive does not advance it
    task,           \* per caller: the running call, its position and locals
    calls,          \* calls started so far
    hist,           \* history, per (name, type): how many save_entity calls
                    \* returned, and the metadata argument of the first
    categories,     \* ContentCategorizer.categories, the taxonomy
    subcategories,  \* ContentCategorizer.subcategories
    call            \* a component called directly: its arguments and results

vars == <<conversations, entities, relationships, clock, task, calls, hist,
          categories, subcategories, call>>

Idle ==
    [op |-> "none", pc |-> "idle", msg |-> 0, sid |-> "", ctx |-> <<>>,
     conv_id |-> NoId, i |-> 0, j |-> 0,
     name |-> "", type |-> "", meta |-> EmptyMeta,
     first_seen |-> 0, existing |-> None, entity_id |-> NoId,
     err |-> "", insights |-> <<>>]

---------------------------------------------------------------------------
(* The store: schema and SQL statements *)

\* json.dumps(x) if x else None: an empty dict or list is stored as NULL
JsonDumps(x) == IF x = <<>> THEN None ELSE <<"json", x>>

\* mutant: the entities column is never read back
JsonLoadsNothing(j) == <<>>

\* json.loads of a non-NULL column, else the default []
JsonLoads(j) == IF j = None THEN <<>> ELSE j[2]

\* mutant: the id column is not a key
NoPrimaryKey(rows, id) == FALSE

\* id TEXT PRIMARY KEY: an INSERT of a taken id raises IntegrityError
PrimaryKeyTaken(rows, id) == \E k \in DOMAIN rows : rows[k].id = id

\* str(uuid.uuid4()) for a row of the table: ids are opaque, so the draws
\* are one representative per outcome, the least id no row has and (a
\* collision) the id of the first row
Uuid4(rows) ==
    { CHOOSE n \in 1..(Len(rows) + 1) : ~PrimaryKeyTaken(rows, n) }
    \cup { rows[k].id : k \in DOMAIN rows \cap {1} }

\* INSERT INTO conversations ... ; commit
InsertConversation(convs, row) == Append(convs, row)

\* SELECT id, mention_count FROM entities WHERE name = ? AND type = ?
\* followed by fetchone(): the rows fetchone() may return (SQL leaves the
\* order of several matching rows open), or None
SelectEntity(ents, n, t) ==
    LET hits == { k \in DOMAIN ents : ents[k].name = n /\ ents[k].type = t }
    IN  IF hits = {} THEN { None }
        ELSE { <<ents[k].id, ents[k].mention_count>> : k \in hits }

\* mutant: no upsert, every call inserts a row
SaveEntityAlwaysInsert(ents, existing, row) == Append(ents, row)

\* mutant: the UPDATE writes the count read by the SELECT plus one
SaveEntityStaleCount(ents, existing, row) ==
    IF existing # None
    THEN [k \in DOMAIN ents |->
            IF ents[k].id = existing[1]
            THEN [ents[k] EXCEPT !.mention_count = existing[2] + 1]
            ELSE ents[k]]
    ELSE Append(ents, row)

\* mutant: the UPDATE resets the count to that of a new row
SaveEntityResetCount(ents, existing, row) ==
    IF existing # None
    THEN [k \in DOMAIN ents |->
            IF ents[k].id = existing[1]
            THEN [ents[k] EXCEPT !.mention_count = 1]
            ELSE ents[k]]
    ELSE Append(ents, row)

\* mutant: the UPDATE also writes the metadata of the call
SaveEntityOverwriteMetadata(ents, existing, row) ==
    IF existing # None
    THEN [k \in DOMAIN ents |->
            IF ents[k].id = existing[1]
            THEN [ents[k] EXCEPT !.mention_count = @ + 1,
                                 !.metadata_json = row.metadata_json]
            ELSE ents[k]]
    ELSE Append(ents, row)

\* the if/else of save_entity: UPDATE mention_count of the row found, or
\* INSERT the new row; then commit
SaveEntityWrite(ents, existing, row) ==
    IF existing # None
    THEN [k \in DOMAIN ents |->
            IF ents[k].id = existing[1]
            THEN [ents[k] EXCEPT !.mention_count = @ + 1]
            ELSE ents[k]]
    ELSE Append(ents, row)

\* INSERT OR REPLACE INTO relationships: the table declares no PRIMARY KEY
\* and no UNIQUE constraint, so no row ever conflicts and none is replaced
InsertOrReplaceRelationship(rels, row) == rels (+) SetToBag({row})

\* user_message[:200]; every text of Messages is shorter than 200 characters
ContextSnippet(m) == Messages[m].text

Min(a, b) == IF a < b THEN a ELSE b

\* LIMIT n
Limit(rows, n) == SubSeq(rows, 1, Min(n, Len(rows)))

RemoveAt(rows, k) == SubSeq(rows, 1, k - 1) \o SubSeq(rows, k + 1, Len(rows))

\* LIMIT n of SQLite: a negative n is no limit
SqlLimit(rows, n) == IF n < 0 THEN rows ELSE Limit(rows, n)

\* ORDER BY timestamp DESC
RECURSIVE OrderByTimestampDesc(_)
OrderByTimestampDesc(rows) ==
    IF rows = <<>> THEN <<>>
    ELSE LET k == CHOOSE k \in DOMAIN rows :
                    \A l \in DOMAIN rows : rows[l].timestamp <= rows[k].timestamp
         IN  <<rows[k]>> \o OrderByTimestampDesc(RemoveAt(rows, k))

\* dict(row) plus conv['entities'] = json.loads(entities_json) or []
ConversationDict(row) ==
    [id |-> row.id, session_id |-> row.session_id, timestamp |-> row.timestamp,
     user_message |-> row.user_message, entities_json |-> row.entities_json,
     entities |-> JsonLoads(row.entities_json)]

\* mutant: get_conversation_history without the WHERE session_id = ?
GetConversationHistoryAnySession(convs, session, limit) ==
    LET sorted == SqlLimit(OrderByTimestampDesc(convs), limit)
    IN  [k \in DOMAIN sorted |-> ConversationDict(sorted[k])]

\* get_conversation_history(session_id, limit); NoSession (None or "") is
\* falsy and selects the conversations of all sessions
GetConversationHistory(convs, session, limit) ==
    LET picked == IF session # NoSession
                  THEN SelectSeq(convs, LAMBDA r : r.session_id = session)
                  ELSE convs
        sorted == SqlLimit(OrderByTimestampDesc(picked), limit)
    IN  [k \in DOMAIN sorted |-> ConversationDict(sorted[k])]

\* an entity_type that is None or ""
NoType == ""

\* row a comes before row b in ORDER BY mention_count DESC, first_seen DESC
Precedes(a, b) ==
    \/ a.mention_count > b.mention_count
    \/ a.mention_count = b.mention_count /\ a.first_seen > b.first_seen

\* mutant: ORDER BY mention_count DESC alone, rows of equal count in the
\* order of insertion
RECURSIVE OrderByMentionsOnly(_)
OrderByMentionsOnly(rows) ==
    IF rows = <<>> THEN <<>>
    ELSE LET k == CHOOSE k \in DOMAIN rows :
                    /\ \A l \in DOMAIN rows :
                          rows[l].mention_count <= rows[k].mention_count
                    /\ \A l \in 1..(k - 1) :
                          rows[l].mention_count < rows[k].mention_count
         IN  <<rows[k]>> \o OrderByMentionsOnly(RemoveAt(rows, k))

\* ORDER BY mention_count DESC, first_seen DESC
RECURSIVE OrderByMentionsDesc(_)
OrderByMentionsDesc(rows) ==
    IF rows = <<>> THEN <<>>
    ELSE LET k == CHOOSE k \in DOMAIN rows :
                    \A l \in DOMAIN rows : ~Precedes(rows[l], rows[k])
         IN  <<rows[k]>> \o OrderByMentionsDesc(RemoveAt(rows, k))

\* dict(row) plus entity['metadata'] = json.loads(metadata_json) or {}
EntityDict(row) ==
    [id |-> row.id, name |-> row.name, type |-> row.type,
     metadata_json |-> row.metadata_json, first_seen |-> row.first_seen,
     mention_count |-> row.mention_count,
     metadata |-> JsonLoads(row.metadata_json)]

\* get_entities(entity_type, limit); NoType (None or "") is falsy and
\* selects the entities of all types
GetEntities(ents, type, limit) ==
    LET picked == IF type # NoType
                  THEN SelectSeq(ents, LAMBDA r : r.type = type)
                  ELSE ents
        sorted == SqlLimit(OrderByMentionsDesc(picked), limit)
    IN  [k \in DOMAIN sorted |-> EntityDict(sorted[k])]

\* get_relationships(entity_id): relationships JOIN entities e1 JOIN entities e2
\* the result as a bag of relationships rows
GetRelationships(rels, ents, id) ==
    LET joins(r) == \E a \in DOMAIN ents, b \in DOMAIN ents :
                        ents[a].id = r.entity1_id /\ ents[b].id = r.entity2_id
        rows == { r \in BagToSet(rels) :
                    joins(r) /\ (r.entity1_id = id \/ r.entity2_id = id) }
    IN  [r \in rows |-> rels[r]]

---------------------------------------------------------------------------
(* MemorySystem *)

MaxContext == 10

EntityScanLimit == 50

KeywordScanLimit == 20

MinKeywordLen == 3

\* any conv_entity of conv with conv_entity.name.lower() == name.lower()
MentionsName(conv, n) ==
    \E k \in DOMAIN conv.entities : LowerStr(conv.entities[k].name) = LowerStr(n)

\* mutant: _search_by_keywords with the words of the query as typed
KeywordSearchAsTyped(convs, user_message) ==
    LET words == Split(user_message)
        keywords == { words[k] :
                        k \in { k \in DOMAIN words : Len(words[k]) > MinKeywordLen } }
    IN  SelectSeq(GetConversationHistory(convs, NoSession, KeywordScanLimit),
                  LAMBDA c : \E kw \in keywords : InLower(kw, c.user_message))

\* _search_by_keywords(user_message)
KeywordSearch(convs, user_message) ==
    LET words == Split(user_message)
        keywords == { LowerStr(words[k]) :
                        k \in { k \in DOMAIN words : Len(words[k]) > MinKeywordLen } }
    IN  SelectSeq(GetConversationHistory(convs, NoSession, KeywordScanLimit),
                  LAMBDA c : \E kw \in keywords : InLower(kw, c.user_message))

\* _search_by_keywords for the m-th message of the model
SearchByKeywords(convs, m) == KeywordSearch(convs, Messages[m].text)

\* the loop over the query entities: one scan of the history per entity
RECURSIVE EntityMatches(_, _, _)
EntityMatches(convs, ents, k) ==
    IF k > Len(ents) THEN <<>>
    ELSE (IF ents[k].name # ""
          THEN SelectSeq(GetConversationHistory(convs, NoSession, EntityScanLimit),
                         LAMBDA c : MentionsName(c, ents[k].name))
          ELSE <<>>)
         \o EntityMatches(convs, ents, k + 1)

\* mutant: get_relevant_context without the final slice
GetRelevantContextUncut(convs, m, session) ==
    LET byEntity == EntityMatches(convs, Messages[m].entities, 1)
    IN  IF byEntity = <<>> THEN SearchByKeywords(convs, m) ELSE byEntity

\* mutant: each conversation collected at most once
RECURSIVE Distinct(_)
Distinct(rows) ==
    IF rows = <<>> THEN <<>>
    ELSE <<rows[1]>> \o Distinct(SelectSeq(Tail(rows), LAMBDA r : r.id # rows[1].id))

ContextDeduplicated(convs, user_message, ents) ==
    LET byEntity == Distinct(EntityMatches(convs, ents, 1))
    IN  IF byEntity = <<>> THEN KeywordSearch(convs, user_message) ELSE byEntity

\* relevant_context of get_relevant_context before the final slice
ContextBeforeSlice(convs, user_message, ents) ==
    LET byEntity == EntityMatches(convs, ents, 1)
    IN  IF byEntity = <<>> THEN KeywordSearch(convs, user_message) ELSE byEntity

\* mutant: get_relevant_context over the conversations of the session
RelevantContextOfSession(convs, user_message, ents, session) ==
    LET own == IF session # NoSession
               THEN SelectSeq(convs, LAMBDA r : r.session_id = session)
               ELSE convs
    IN  Limit(ContextBeforeSlice(own, user_message, ents), MaxContext)

\* get_relevant_context(user_message, entities, session_id)
RelevantContext(convs, user_message, ents, session) ==
    Limit(ContextBeforeSlice(convs, user_message, ents), MaxContext)

\* mutant: get_relevant_context called after save_conversation: the store it
\* reads already holds the conversation of the message, under the next id
GetRelevantContextAfterSave(convs, m, session) ==
    LET own == [id |-> CHOOSE n \in 1..(Len(convs) + 1) :
                          \A k \in DOMAIN convs : convs[k].id # n,
                session_id |-> session, timestamp |-> Len(convs) + 1,
                user_message |-> Messages[m].text,
                entities_json |-> JsonDumps(Messages[m].entities)]
    IN  RelevantContext(Append(convs, own), Messages[m].text,
                        Messages[m].entities, session)

\* get_relevant_context for the m-th message of the model and its entities
GetRelevantContext(convs, m, session) ==
    RelevantContext(convs, Messages[m].text, Messages[m].entities, session)

---------------------------------------------------------------------------
(* Coach *)

MaxInsights == 5

PatternThreshold == 3

ManyEntities == 3

\* an insight that carries a reading of the clock, as the "date" of
\* get_daily_insights does
InsightStamped(t, p, k, e, f) ==
    [type |-> t, priority |-> p, kind |-> k, entity |-> e, frequency |-> f + clock]

Insight(t, p, k, e, f) ==
    [type |-> t, priority |-> p, kind |-> k, entity |-> e, frequency |-> f]

\* any(word in message_lower for word in words)
AnyInLower(words, text) ==
    LET message_lower == LowerStr(text)
    IN  \E w \in words : Contains(w, message_lower)

\* _analyze_message_for_insights
AnalyzeMessageForInsights(text) ==
    (IF AnyInLower({"reunión", "meeting", "call"}, text)
     THEN << Insight("follow_up", "medium", "meeting", "", 0) >> ELSE <<>>)
    \o (IF AnyInLower({"deadline", "fecha límite", "entrega"}, text)
        THEN << Insight("reminder", "high", "deadline", "", 0) >> ELSE <<>>)
    \o (IF AnyInLower({"cumpleaños", "birthday", "aniversario"}, text)
        THEN << Insight("reminder", "medium", "birthday", "", 0) >> ELSE <<>>)

\* mutant: _get_person_context comparing the names as written
GetPersonContextAsWritten(n, ctx) ==
    SelectSeq(ctx, LAMBDA c : \E k \in DOMAIN c.entities : c.entities[k].name = n)

\* _get_person_context
GetPersonContext(n, ctx) == SelectSeq(ctx, LAMBDA c : MentionsName(c, n))

\* _generate_reminders
RECURSIVE GenerateReminders(_, _, _)
GenerateReminders(ents, ctx, k) ==
    IF k > Len(ents) THEN <<>>
    ELSE (IF ents[k].type = "person"
          THEN (IF GetPersonContext(ents[k].name, ctx) # <<>>
                THEN << Insight("follow_up", "medium", "person", ents[k].name, 0) >>
                ELSE <<>>)
          ELSE IF ents[k].type = "project"
          THEN << Insight("follow_up", "medium", "project", ents[k].name, 0) >>
          ELSE <<>>)
         \o GenerateReminders(ents, ctx, k + 1)

\* the topics of _analyze_topic_frequency, in the order of the dict literal
Topics == << "trabajo", "personal", "salud", "finanzas" >>

TopicKeywords(topic) ==
    CASE topic = "trabajo" -> {"trabajo", "work", "proyecto", "project"}
      [] topic = "personal" -> {"familia", "family", "amigos", "friends"}
      [] topic = "salud" -> {"ejercicio", "exercise", "salud", "health"}
      [] topic = "finanzas" -> {"dinero", "money", "presupuesto", "budget"}

\* mutant: topic_frequency counting each conversation once
TopicFrequencyDistinct(ctx, topic) ==
    Cardinality({ ctx[k].id : k \in { k \in DOMAIN ctx :
                    AnyInLower(TopicKeywords(topic), ctx[k].user_message) } })

\* topic_frequency[topic]: the context items whose message has a keyword of it
TopicFrequency(ctx, topic) ==
    Cardinality({ k \in DOMAIN ctx :
                    AnyInLower(TopicKeywords(topic), ctx[k].user_message) })

\* position at which topic_frequency first gets the key: a dict iterates in
\* insertion order, so by first context item, then by order in Topics
FirstSeenAt(ctx, t) ==
    LET k == CHOOSE k \in DOMAIN ctx :
                /\ AnyInLower(TopicKeywords(Topics[t]), ctx[k].user_message)
                /\ \A l \in 1..(k - 1) :
                      ~AnyInLower(TopicKeywords(Topics[t]), ctx[l].user_message)
    IN  k * (Len(Topics) + 1) + t

\* _detect_patterns (_analyze_time_patterns returns None)
RECURSIVE PatternsFrom(_, _)
PatternsFrom(ctx, todo) ==
    IF todo = {} THEN <<>>
    ELSE LET t == CHOOSE t \in todo :
                    \A u \in todo : FirstSeenAt(ctx, t) <= FirstSeenAt(ctx, u)
         IN  (IF TopicFrequency(ctx, Topics[t]) > PatternThreshold
              THEN << Insight("pattern", "low", Topics[t], "",
                              TopicFrequency(ctx, Topics[t])) >>
              ELSE <<>>)
             \o PatternsFrom(ctx, todo \ {t})

DetectPatterns(ctx) ==
    PatternsFrom(ctx, { t \in DOMAIN Topics : TopicFrequency(ctx, Topics[t]) > 0 })

\* _generate_proactive_suggestions
GenerateProactiveSuggestions(ents, ctx) ==
    (IF Len(ents) > ManyEntities
     THEN << Insight("organization", "medium", "organize", "", 0) >> ELSE <<>>)
    \o (IF ctx # <<>>
        THEN << Insight("search", "low", "search", "", 0) >> ELSE <<>>)
    \o (IF \E k \in DOMAIN ents : ents[k].type = "date"
        THEN << Insight("reminder", "medium", "dates", "", 0) >> ELSE <<>>)

\* mutant: the pattern insights appended before the reminders
AllInsightsPatternsFirst(text, ents, ctx) ==
    AnalyzeMessageForInsights(text)
    \o DetectPatterns(ctx)
    \o GenerateReminders(ents, ctx, 1)
    \o GenerateProactiveSuggestions(ents, ctx)

\* the list `insights` of generate_insights before its return
AllInsights(text, ents, ctx) ==
    AnalyzeMessageForInsights(text)
    \o GenerateReminders(ents, ctx, 1)
    \o DetectPatterns(ctx)
    \o GenerateProactiveSuggestions(ents, ctx)

\* mutant: the list is returned whole
GenerateInsightsUncapped(text, ents, ctx) == AllInsights(text, ents, ctx)

\* generate_insights(user_message, entities, relevant_context)
GenerateInsightsOf(text, ents, ctx) ==
    Limit(AllInsights(text, ents, ctx), MaxInsights)

---------------------------------------------------------------------------
(* EntityRecognizer *)

\* [A-Z]
ReUpper == ReSet(CharsOf("ABCDEFGHIJKLMNOPQRSTUVWXYZ"))

\* [a-z]
ReLower == ReSet(CharsOf("abcdefghijklmnopqrstuvwxyz"))

\* \d
ReDigit == ReSet(CharsOf(DigitChars))

\* [A-Z][a-z]+
ReName == ReCat(<<ReUpper, ReRep(ReLower, 1, Unbounded)>>)

\* [a-z]+
ReLowers == ReRep(ReLower, 1, Unbounded)

\* \d{1,2}
ReDay == ReRep(ReDigit, 1, 2)

\* \d{4}
ReYear == ReRep(ReDigit, 4, 4)

\* [^\s]+
ReNonSpaces == ReRep(ReNot(WhiteSpace), 1, Unbounded)

\* self.patterns, in the order of the dict literal
Patterns ==
    << [type |-> "person", res |-> <<
            ReCat(<<ReB, ReName, ReLit(" "), ReName, ReB>>),
            ReCat(<<ReB, ReName, ReB>>) >>],
       [type |-> "date", res |-> <<
            ReCat(<<ReB, ReDay, ReLit("/"), ReDay, ReLit("/"), ReYear, ReB>>),
            ReCat(<<ReB, ReYear, ReLit("-"), ReRep(ReDigit, 2, 2), ReLit("-"),
                    ReRep(ReDigit, 2, 2), ReB>>),
            ReCat(<<ReB, ReDay, ReLit(" de "), ReLowers, ReLit(" de "), ReYear, ReB>>),
            ReCat(<<ReB, ReLowers, ReLit(" "), ReDay, ReRep(ReLit(","), 0, 1),
                    ReLit(" "), ReYear, ReB>>),
            ReCat(<<ReB, ReLit("Q"), ReSet(CharsOf("1234")), ReB>>),
            ReCat(<<ReB, ReYear, ReB>>) >>],
       [type |-> "project", res |-> <<
            ReCat(<<ReB, ReLit("proyecto "), ReName, ReB>>),
            ReCat(<<ReB, ReUpper, ReRep(ReUpper, 1, Unbounded), ReB>>),
            ReCat(<<ReB, ReName, ReName, ReB>>) >>],
       [type |-> "company", res |-> <<
            ReCat(<<ReB, ReName, ReLit(" "),
                    ReAlt(<<ReLit("Inc"), ReLit("Corp"), ReLit("LLC"), ReLit("Ltd"),
                            ReLit("S.A."), ReLit("S.A.S.")>>), ReB>>),
            ReCat(<<ReB, ReName, ReLit(" "), ReName, ReLit(" "),
                    ReAlt(<<ReLit("Company"), ReLit("Corporation"),
                            ReLit("Enterprise")>>), ReB>>) >>],
       [type |-> "url", res |-> <<
            ReCat(<<ReLit("http"), ReRep(ReLit("s"), 0, 1), ReLit("://"), ReNonSpaces>>),
            ReCat(<<ReLit("www."), ReNonSpaces>>) >>],
       [type |-> "email", res |-> <<
            ReCat(<<ReB,
                    ReRep(ReSet(CharsOf("ABCDEFGHIJKLMNOPQRSTUVWXYZ")
                                \cup CharsOf("abcdefghijklmnopqrstuvwxyz")
                                \cup CharsOf(DigitChars) \cup CharsOf("._%+-")),
                          1, Unbounded),
                    ReLit("@"),
                    ReRep(ReSet(CharsOf("ABCDEFGHIJKLMNOPQRSTUVWXYZ")
                                \cup CharsOf("abcdefghijklmnopqrstuvwxyz")
                                \cup CharsOf(DigitChars) \cup CharsOf(".-")),
                          1, Unbounded),
                    ReLit("."),
                    ReRep(ReSet(CharsOf("ABCDEFGHIJKLMNOPQRSTUVWXYZ")
                                \cup CharsOf("abcdefghijklmnopqrstuvwxyz") \cup {"|"}),
                          2, Unbounded),
                    ReB>>) >>],
       [type |-> "phone", res |-> <<
            ReCat(<<ReB, ReRep(ReLit("+"), 0, 1),
                    ReRep(ReSet(CharsOf(DigitChars) \cup WhiteSpace \cup CharsOf("-()")),
                          10, Unbounded),
                    ReB>>) >>] >>

\* self.keywords, in the order of the dict literal
Keywords ==
    << [type |-> "person",
        words |-> <<"marco", "maría", "juan", "ana", "pedro", "lisa", "carlos">>],
       [type |-> "project",
        words |-> <<"finops", "devops", "frontend", "backend", "api", "database">>],
       [type |-> "company",
        words |-> <<"google", "microsoft", "apple", "amazon", "meta">>],
       [type |-> "event",
        words |-> <<"reunión", "meeting", "conferencia", "presentación", "demo">>],
       [type |-> "task",
        words |-> <<"tarea", "task", "trabajo", "proyecto", "desarrollo">>] >>

BirthdayMeta == << <<"context", "birthday">> >>

DevelopmentMeta == << <<"context", "development">> >>

\* the patterns of _extract_special_dates and _extract_projects: a literal,
\* the group, a literal; the entity is named by the group and starts where
\* the whole match starts
GroupPatterns ==
    << [type |-> "person", meta |-> BirthdayMeta,
        pre |-> "cumpleaños de ", grp |-> ReName, post |-> ""],
       [type |-> "person", meta |-> BirthdayMeta,
        pre |-> "birthday of ", grp |-> ReName, post |-> ""],
       [type |-> "person", meta |-> BirthdayMeta,
        pre |-> "", grp |-> ReName, post |-> " cumple años"],
       [type |-> "date", meta |-> DeadlineMeta,
        pre |-> "deadline ", grp |-> ReCat(<<ReLowers, ReLit(" "), ReDay>>), post |-> ""],
       [type |-> "date", meta |-> DeadlineMeta,
        pre |-> "fecha límite ", grp |-> ReCat(<<ReLowers, ReLit(" "), ReDay>>), post |-> ""],
       [type |-> "date", meta |-> DeadlineMeta,
        pre |-> "entrega ", grp |-> ReCat(<<ReLowers, ReLit(" "), ReDay>>), post |-> ""],
       [type |-> "project", meta |-> DevelopmentMeta,
        pre |-> "proyecto ", grp |-> ReName, post |-> ""],
       [type |-> "project", meta |-> DevelopmentMeta,
        pre |-> "project ", grp |-> ReName, post |-> ""],
       [type |-> "project", meta |-> DevelopmentMeta,
        pre |-> "", grp |-> ReName, post |-> " project"],
       [type |-> "project", meta |-> DevelopmentMeta,
        pre |-> "trabajando en ", grp |-> ReName, post |-> ""],
       [type |-> "project", meta |-> DevelopmentMeta,
        pre |-> "desarrollando ", grp |-> ReName, post |-> ""] >>

\* the entities of the matches of one pattern; name is match.group()
RECURSIVE MatchEntities(_, _, _, _)
MatchEntities(text, type, spans, k) ==
    IF k > Len(spans) THEN <<>>
    ELSE << Entity(Slice(text, spans[k][1], spans[k][2]), type, spans[k][1], EmptyMeta) >>
         \o MatchEntities(text, type, spans, k + 1)

\* the loop over the patterns of one type
RECURSIVE TypePatternEntities(_, _, _, _)
TypePatternEntities(text, type, res, k) ==
    IF k > Len(res) THEN <<>>
    ELSE MatchEntities(text, type, FindIter(res[k], text, 0), 1)
         \o TypePatternEntities(text, type, res, k + 1)

\* "Detectar por patrones regex": the loop over self.patterns
RECURSIVE PatternEntities(_, _)
PatternEntities(text, k) ==
    IF k > Len(Patterns) THEN <<>>
    ELSE TypePatternEntities(text, Patterns[k].type, Patterns[k].res, 1)
         \o PatternEntities(text, k + 1)

\* the loop over the keywords of one type: a keyword that is a substring of
\* text.lower() is searched as a whole word in the text
RECURSIVE TypeKeywordEntities(_, _, _, _)
TypeKeywordEntities(text, type, words, k) ==
    IF k > Len(words) THEN <<>>
    ELSE (IF Contains(words[k], LowerStr(text))
          THEN MatchEntities(text, type,
                    FindIter(ReCat(<<ReB, ReLit(words[k]), ReB>>), text, 0), 1)
          ELSE <<>>)
         \o TypeKeywordEntities(text, type, words, k + 1)

\* "Detectar por palabras clave": the loop over self.keywords
RECURSIVE KeywordEntities(_, _)
KeywordEntities(text, k) ==
    IF k > Len(Keywords) THEN <<>>
    ELSE TypeKeywordEntities(text, Keywords[k].type, Keywords[k].words, 1)
         \o KeywordEntities(text, k + 1)

\* the entities of the matches of one group pattern; name is match.group(1)
RECURSIVE GroupMatchEntities(_, _, _, _)
GroupMatchEntities(text, g, spans, k) ==
    IF k > Len(spans) THEN <<>>
    ELSE << Entity(Slice(text, spans[k][1] + Len(g.pre), spans[k][2] - Len(g.post)),
                   g.type, spans[k][1], g.meta) >>
         \o GroupMatchEntities(text, g, spans, k + 1)

\* _extract_special_dates followed by _extract_projects
RECURSIVE GroupEntities(_, _)
GroupEntities(text, k) ==
    IF k > Len(GroupPatterns) THEN <<>>
    ELSE LET g == GroupPatterns[k]
         IN  GroupMatchEntities(text, g,
                FindIter(ReCat(<<ReLit(g.pre), g.grp, ReLit(g.post)>>), text, 0), 1)
             \o GroupEntities(text, k + 1)

\* the key of _deduplicate_entities
DedupKey(e) == <<LowerStr(e.name), e.type, e.start>>

\* the first loop of _deduplicate_entities: the first entity of every key
RECURSIVE Unique(_, _)
Unique(ents, k) ==
    IF k > Len(ents) THEN <<>>
    ELSE (IF \E l \in 1..(k - 1) : DedupKey(ents[l]) = DedupKey(ents[k])
          THEN <<>> ELSE << ents[k] >>)
         \o Unique(ents, k + 1)

\* list.sort(key=start): stable, equal starts keep their order
RECURSIVE SortByStart(_)
SortByStart(ents) ==
    IF ents = <<>> THEN <<>>
    ELSE LET k == CHOOSE k \in DOMAIN ents :
                    /\ \A l \in DOMAIN ents : ents[k].start <= ents[l].start
                    /\ \A l \in 1..(k - 1) : ents[l].start > ents[k].start
         IN  << ents[k] >> \o SortByStart(RemoveAt(ents, k))

\* mutant: the entities are sorted but duplicates are kept
SortWithoutDedup(ents) == SortByStart(ents)

\* _deduplicate_entities
DeduplicateEntities(ents) == SortByStart(Unique(ents, 1))

\* the list `entities` of extract_entities before _deduplicate_entities
RawEntities(text) ==
    PatternEntities(text, 1) \o KeywordEntities(text, 1) \o GroupEntities(text, 1)

\* extract_entities(text); "end" and "confidence" of an entity are left out
ExtractEntities(text) == DeduplicateEntities(RawEntities(text))

---------------------------------------------------------------------------
(* ContentCategorizer.  Scores are counted in tenths, so that the weight  *)
(* 1.0 and the bonuses 0.5, 0.3 and 0.2 are integers.                     *)

\* self.categories as __init__ builds it, in the order of the dict literal
BaseCategories ==
    << [name |-> "work", weight |-> 10, keywords |-> <<
            "reunión", "meeting", "proyecto", "project", "trabajo", "work",
            "deadline", "fecha límite", "presentación", "demo", "código",
            "desarrollo", "development", "api", "database", "frontend",
            "backend", "devops", "finops", "presupuesto", "budget">>],
       [name |-> "personal", weight |-> 10, keywords |-> <<
            "familia", "family", "amigos", "friends", "cumpleaños", "birthday",
            "vacaciones", "vacation", "casa", "home", "hobby", "pasatiempo">>],
       [name |-> "health", weight |-> 10, keywords |-> <<
            "ejercicio", "exercise", "gimnasio", "gym", "médico", "doctor",
            "salud", "health", "dieta", "diet", "bienestar", "wellness">>],
       [name |-> "learning", weight |-> 10, keywords |-> <<
            "estudiar", "study", "curso", "course", "libro", "book",
            "aprender", "learn", "investigación", "research", "tutorial">>],
       [name |-> "finance", weight |-> 10, keywords |-> <<
            "dinero", "money", "inversión", "investment", "ahorro", "saving",
            "gasto", "expense", "presupuesto", "budget", "finanzas", "finance">>],
       [name |-> "links", weight |-> 10, keywords |-> <<
            "http", "www", "link", "url", "sitio", "website", "artículo",
            "article", "recurso", "resource", "documentación", "docs">>],
       [name |-> "tasks", weight |-> 10, keywords |-> <<
            "tarea", "task", "hacer", "do", "completar", "complete",
            "pendiente", "pending", "lista", "list", "checklist">>],
       [name |-> "events", weight |-> 10, keywords |-> <<
            "evento", "event", "conferencia", "conference", "seminario",
            "seminar", "workshop", "taller", "cita", "appointment">>] >>

\* self.subcategories as __init__ builds it: per category, its
\* subcategories and their keywords, in the order of the dict literals
BaseSubcategories ==
    << [name |-> "work", subcategories |-> <<
            [name |-> "development", keywords |-> <<
                "código", "programming", "desarrollo", "development">>],
            [name |-> "meetings", keywords |-> <<
                "reunión", "meeting", "call", "llamada">>],
            [name |-> "projects", keywords |-> <<
                "proyecto", "project", "finops", "devops">>],
            [name |-> "planning", keywords |-> <<
                "planificación", "planning", "roadmap", "estrategia">>] >>],
       [name |-> "personal", subcategories |-> <<
            [name |-> "family", keywords |-> <<
                "familia", "family", "hijos", "children">>],
            [name |-> "friends", keywords |-> <<
                "amigos", "friends", "social", "sociales">>],
            [name |-> "hobbies", keywords |-> <<
                "hobby", "pasatiempo", "interés", "interest">>] >>] >>

\* the keyword loop of categorize_content: weight per keyword of the
\* category that is a substring of text.lower()
KeywordScore(config, text) ==
    LET text_lower == LowerStr(text)
    IN  config.weight * Cardinality({ k \in DOMAIN config.keywords :
                                        Contains(config.keywords[k], text_lower) })

\* _calculate_entity_bonus, the two if/elif chains for one entity
EntityBonusOf(category, e) ==
    (IF category = "work" /\ e.type \in {"project", "company"} THEN 5
     ELSE IF category = "personal" /\ e.type = "person" THEN 3
     ELSE IF category = "events" /\ e.type = "date" THEN 2
     ELSE 0)
    + (IF category = "work" /\ LowerStr(e.name) \in {"finops", "devops", "api"} THEN 3
       ELSE IF category = "personal" /\ LowerStr(e.name) \in {"maría", "marco", "juan"}
       THEN 2
       ELSE 0)

\* _calculate_entity_bonus(category, entities)
RECURSIVE EntityBonus(_, _, _)
EntityBonus(category, ents, k) ==
    IF k > Len(ents) THEN 0
    ELSE EntityBonusOf(category, ents[k]) + EntityBonus(category, ents, k + 1)

\* scores[category] of categorize_content, by position in self.categories
Scores(cats, text, ents) ==
    [k \in DOMAIN cats |->
        KeywordScore(cats[k], text) + EntityBonus(cats[k].name, ents, 1)]

\* max(scores.values())
MaxScore(scores) ==
    CHOOSE v \in { scores[k] : k \in DOMAIN scores } :
        \A k \in DOMAIN scores : scores[k] <= v

\* mutant: the last category whose score is the maximum
ArgMaxLast(scores) ==
    CHOOSE k \in DOMAIN scores :
        /\ scores[k] = MaxScore(scores)
        /\ \A l \in (k + 1)..Len(scores) : scores[l] # MaxScore(scores)

\* max(scores, key=scores.get): the first category, in the order of the
\* dict, whose score is the maximum
ArgMax(scores) ==
    CHOOSE k \in DOMAIN scores :
        /\ scores[k] = MaxScore(scores)
        /\ \A l \in 1..(k - 1) : scores[l] # MaxScore(scores)

\* mutant: no fallback, the first category wins when every score is 0
CategorizeWithoutFallback(cats, text, ents) ==
    cats[ArgMax(Scores(cats, text, ents))].name

\* categorize_content(text, entities) with self.categories = cats
CategorizeContent(cats, text, ents) ==
    LET scores == Scores(cats, text, ents)
    IN  IF cats = <<>> \/ MaxScore(scores) = 0 THEN "general"
        ELSE cats[ArgMax(scores)].name

\* the position of category n in self.categories, or 0
IndexOf(cats, n) ==
    IF \E k \in DOMAIN cats : cats[k].name = n
    THEN CHOOSE k \in DOMAIN cats : cats[k].name = n
    ELSE 0

\* mutant: the config of a known category is replaced, not updated
ReplaceConfig(old, config) == [name |-> old.name] @@ config

\* self.categories[category].update(config): the keys of config are set,
\* the other keys stay
UpdateConfig(old, config) ==
    [key \in DOMAIN old \cup DOMAIN config |->
        IF key \in DOMAIN config THEN config[key] ELSE old[key]]

\* the body of the loop of update_categories for one item of new_categories;
\* a new key of a dict goes last
UpdateCategory(cats, n, config) ==
    IF IndexOf(cats, n) # 0
    THEN [cats EXCEPT ![IndexOf(cats, n)] = UpdateConfig(@, config)]
    ELSE Append(cats, [name |-> n] @@ config)

\* update_categories(new_categories), new_categories as the sequence of its
\* items from item k on
RECURSIVE UpdateCategories(_, _, _)
UpdateCategories(cats, new_categories, k) ==
    IF k > Len(new_categories) THEN cats
    ELSE UpdateCategories(
             UpdateCategory(cats, new_categories[k][1], new_categories[k][2]),
             new_categories, k + 1)

---------------------------------------------------------------------------
(* Orchestrator and store calls, step by step *)

\* no component is being called directly
NoCall == [pc |-> "none"]

Init ==
    /\ conversations = <<>>
    /\ entities = <<>>
    /\ relationships = EmptyBag
    /\ clock = 1
    /\ task = [p \in Procs |-> Idle]
    /\ calls = 0
    /\ hist = [key \in AllKeys |-> [n |-> 0, first |-> EmptyMeta]]
    /\ categories = BaseCategories
    /\ subcategories = BaseSubcategories
    /\ call = NoCall

\* a caller that is not inside a call
Free(p) == task[p].pc \in {"idle", "done", "failed"}

\* entity.get("id", ""): the recognizer's entities carry no "id" key
GetId(e) == IF "id" \in DOMAIN e THEN e.id ELSE NoId

\* the call raises: the exception leaves process_message (no try/except)
\* and the frame's locals are gone; op, msg and conv_id are kept as history
Raise(t, what) ==
    [Idle EXCEPT !.op = t.op, !.pc = "failed", !.err = what,
                 !.msg = t.msg, !.conv_id = t.conv_id]

\* mutant: the insights are generated before the conversation is saved
NextStageInsightsFirst(stage) ==
    CASE stage = "respond" -> "insights"
      [] stage = "insights" -> "save_conversation"
      [] stage = "save_conversation" -> "entities"
      [] stage = "entities" -> "done"

\* the order of the stages of process_message after the response text is
\* built: 5. save_conversation, 6. _update_entities_and_relationships,
\* 7. generate_insights, then the return
NextStage(stage) ==
    CASE stage = "respond" -> "save_conversation"
      [] stage = "save_conversation" -> "entities"
      [] stage = "entities" -> "insights"
      [] stage = "insights" -> "done"

\* the save_entity call for the k-th entity of the message
EnterEntity(t, k) ==
    LET ents == Messages[t.msg].entities
    IN  [t EXCEPT !.pc = "se_select", !.i = k, !.j = 0,
                  !.name = ents[k].name, !.type = ents[k].type,
                  !.meta = ents[k].metadata,
                  !.existing = None, !.entity_id = NoId]

\* control reaches a stage; with no entities the loop of stage 6 is empty
Goto(t, stage) ==
    LET at(st) == [t EXCEPT !.pc = st, !.i = 0, !.j = 0, !.name = "",
                            !.type = "", !.meta = EmptyMeta,
                            !.entity_id = NoId]
    IN  IF stage = "entities"
        THEN IF Messages[t.msg].entities # <<>>
             THEN EnterEntity(t, 1)
             ELSE at(NextStage("entities"))
        ELSE at(stage)

\* for entity in entities: the save_entity call of the k-th entity, or, past
\* the last one, the return of _update_entities_and_relationships
BeginEntity(t, k) ==
    IF k <= Len(Messages[t.msg].entities)
    THEN EnterEntity(t, k)
    ELSE Goto(t, NextStage("entities"))

\* for other_entity in entities: if other_entity != entity: the next index
\* after j whose entity differs from the i-th, or 0
NextOther(ents, i, j) ==
    LET rest == { k \in DOMAIN ents : k > j /\ ents[k] # ents[i] }
    IN  IF rest = {} THEN 0
        ELSE CHOOSE k \in rest : \A l \in rest : k <= l

\* after save_entity returned, or after a save_relationship: the inner loop
Continue(t, j) ==
    LET nxt == NextOther(Messages[t.msg].entities, t.i, j)
    IN  IF nxt # 0 THEN [t EXCEPT !.pc = "rel", !.j = nxt]
        ELSE BeginEntity(t, t.i + 1)

\* process_message, steps 1 to 4: extract, categorize, retrieve, respond
ProcessMessage(p, m, s) ==
    /\ Free(p)
    /\ calls < MaxCalls
    /\ calls' = calls + 1
    /\ task' = [task EXCEPT ![p] =
            Goto([Idle EXCEPT !.op = "process_message", !.msg = m, !.sid = s,
                              !.ctx = GetRelevantContext(conversations, m, s)],
                 NextStage("respond"))]
    /\ UNCHANGED <<conversations, entities, relationships, clock, hist>>

\* process_message, step 5: save_conversation
SaveConversation(p) ==
    /\ task[p].pc = "save_conversation"
    /\ \E uid \in Uuid4(conversations) :
         LET t == task[p]
             row == [id |-> uid, session_id |-> t.sid, timestamp |-> clock,
                     user_message |-> Messages[t.msg].text,
                     entities_json |-> JsonDumps(Messages[t.msg].entities)]
         IN  IF PrimaryKeyTaken(conversations, uid)
             THEN /\ task' = [task EXCEPT ![p] = Raise(t, "save_conversation")]
                  /\ UNCHANGED <<conversations, clock>>
             ELSE /\ conversations' = InsertConversation(conversations, row)
                  /\ clock' = clock + 1
                  /\ task' = [task EXCEPT ![p] =
                                Goto([t EXCEPT !.conv_id = uid],
                                     NextStage("save_conversation"))]
    /\ UNCHANGED <<entities, relationships, calls, hist>>

\* a direct call save_entity(name, entity_type, metadata)
SaveEntity(p, key, meta) ==
    /\ Free(p)
    /\ calls < MaxCalls
    /\ calls' = calls + 1
    /\ task' = [task EXCEPT ![p] =
            [Idle EXCEPT !.op = "save_entity", !.pc = "se_select",
                         !.name = key[1], !.type = key[2], !.meta = meta]]
    /\ UNCHANGED <<conversations, entities, relationships, clock, hist>>

\* save_entity up to fetchone(): first_seen and the SELECT
SelectExisting(p) ==
    /\ task[p].pc = "se_select"
    /\ \E e \in SelectEntity(entities, task[p].name, task[p].type) :
         /\ task' = [task EXCEPT ![p] =
                [task[p] EXCEPT !.pc = "se_write", !.existing = e,
                                !.first_seen = IF e = None THEN clock ELSE 0]]
         /\ clock' = IF e = None THEN clock + 1 ELSE clock
    /\ UNCHANGED <<conversations, entities, relationships, calls, hist>>

\* save_entity from `if existing` to its return
WriteEntity(p) ==
    /\ task[p].pc = "se_write"
    /\ \E uid \in Uuid4(entities) :
         LET t == task[p]
             row == [id |-> uid, name |-> t.name, type |-> t.type,
                     metadata_json |-> JsonDumps(t.meta),
                     first_seen |-> t.first_seen, mention_count |-> 1]
             ret == IF t.existing # None THEN t.existing[1] ELSE uid
             back == [t EXCEPT !.entity_id = ret, !.existing = None,
                               !.first_seen = 0]
         IN  IF t.existing = None /\ PrimaryKeyTaken(entities, uid)
             THEN /\ task' = [task EXCEPT ![p] = Raise(t, "save_entity")]
                  /\ UNCHANGED <<entities, hist>>
             ELSE /\ entities' = SaveEntityWrite(entities, t.existing, row)
                  /\ hist' = [hist EXCEPT ![<<t.name, t.type>>] =
                        [n |-> @.n + 1,
                         first |-> IF @.n = 0 THEN t.meta ELSE @.first]]
                  /\ task' = [task EXCEPT ![p] =
                                IF t.op = "save_entity"
                                THEN [back EXCEPT !.pc = "done"]
                                ELSE Continue(back, 0)]
    /\ UNCHANGED <<conversations, relationships, clock, calls>>

\* the save_relationship call of _update_entities_and_relationships
SaveRelationship(p) ==
    /\ task[p].pc = "rel"
    /\ LET t == task[p]
           other == Messages[t.msg].entities[t.j]
           row == [entity1_id |-> t.entity_id, entity2_id |-> GetId(other),
                   relationship_type |-> "mentioned_together",
                   context |-> ContextSnippet(t.msg)]
       IN  /\ relationships' = InsertOrReplaceRelationship(relationships, row)
           /\ task' = [task EXCEPT ![p] = Continue(t, t.j)]
    /\ UNCHANGED <<conversations, entities, clock, calls, hist>>

\* process_message, step 7 and the return
GenerateInsights(p) ==
    /\ task[p].pc = "insights"
    /\ LET t == task[p]
       IN  task' = [task EXCEPT ![p] =
              Goto([t EXCEPT !.insights =
                        GenerateInsightsOf(Messages[t.msg].text,
                                           Messages[t.msg].entities, t.ctx)],
                   NextStage("insights"))]
    /\ UNCHANGED <<conversations, entities, relationships, clock, calls, hist>>

\* generate_insights raises: process_message has no handler around it
InsightsError(p) ==
    /\ task[p].pc = "insights"
    /\ task' = [task EXCEPT ![p] = Raise(task[p], "generate_insights")]
    /\ UNCHANGED <<conversations, entities, relationships, clock, calls, hist>>

StoreCallAt(pc) ==
    CASE pc = "save_conversation" -> "save_conversation"
      [] pc = "se_write" -> "save_entity"
      [] pc = "rel" -> "save_relationship"

\* sqlite3 raises in connect, execute or commit (database is locked, I/O
\* error): nothing of the statement is written and the exception propagates
StoreError(p) ==
    /\ task[p].pc \in {"save_conversation", "se_write", "rel"}
    /\ task' = [task EXCEPT ![p] = Raise(task[p], StoreCallAt(task[p].pc))]
    /\ UNCHANGED <<conversations, entities, relationships, clock, calls, hist>>

Step(p) ==
    \/ \E m \in DOMAIN Messages, s \in Sessions : ProcessMessage(p, m, s)
    \/ SaveConversation(p)
    \/ \E key \in EntityKeys, meta \in Metadatas : SaveEntity(p, key, meta)
    \/ WriteEntity(p)
    \/ SaveRelationship(p)
    \/ GenerateInsights(p)
    \/ InsightsError(p)
    \/ StoreError(p)

Next ==
    /\ \E p \in Procs : SelectExisting(p) \/ Step(p)
    /\ UNCHANGED <<categories, subcategories, call>>

Spec == Init /\ [][Next]_vars

\* save_entity calls one after the other: no caller starts the SELECT of a
\* save_entity while another is between its SELECT and its write
NoOtherInSaveEntity(p) == \A q \in Procs \ {p} : task[q].pc # "se_write"

NextSeq ==
    /\ \E p \in Procs : (NoOtherInSaveEntity(p) /\ SelectExisting(p)) \/ Step(p)
    /\ UNCHANGED <<categories, subcategories, call>>

SpecSeq == Init /\ [][NextSeq]_vars

---------------------------------------------------------------------------
(* The recognizer, the categorizer and the coach called directly, each    *)
(* twice in a row with the same arguments                                 *)

ScenarioText == "Reunión con María sobre el proyecto FinOps el 15/03/2024"

Vocabulary == {"Ana", "reunión", "Q1", "proyecto", "cumpleaños de"}

\* the texts of n words of the vocabulary
RECURSIVE Phrases(_)
Phrases(n) ==
    IF n = 1 THEN Vocabulary
    ELSE { ph \o " " \o w : ph \in Phrases(n - 1), w \in Vocabulary }

Texts == {ScenarioText} \cup UNION { Phrases(n) : n \in 1..MaxWords }

ContextText == "proyecto Ana"

\* the context lists: n stored conversations of ContextText, as
\* get_conversation_history returns them
Contexts ==
    { [j \in 1..n |->
          ConversationDict([id |-> j, session_id |-> "s1", timestamp |-> j,
                            user_message |-> ContextText,
                            entities_json |-> JsonDumps(ExtractEntities(ContextText))])] :
      n \in 0..MaxContextItems }

NewCall(text) ==
    [pc |-> "new", text |-> text, entities |-> <<>>, entities2 |-> <<>>,
     cat_entities |-> <<>>, category |-> "", category2 |-> "",
     ctx |-> <<>>, insights |-> <<>>, insights2 |-> <<>>]

InitPipeline ==
    /\ conversations = <<>>
    /\ entities = <<>>
    /\ relationships = EmptyBag
    /\ clock = 1
    /\ task = [p \in Procs |-> Idle]
    /\ calls = 0
    /\ hist = [key \in AllKeys |-> [n |-> 0, first |-> EmptyMeta]]
    /\ categories = BaseCategories
    /\ subcategories = BaseSubcategories
    /\ call \in { NewCall(text) : text \in Texts }

\* entity_recognizer.extract_entities(text)
CallExtractEntities ==
    /\ call.pc = "new"
    /\ call' = [call EXCEPT !.pc = "extracted",
                            !.entities = ExtractEntities(call.text)]
    /\ UNCHANGED <<conversations, entities, relationships, clock, task, calls,
                   hist, categories,
                   subcategories>>

\* the same call again
RecallExtractEntities ==
    /\ call.pc = "extracted"
    /\ call' = [call EXCEPT !.pc = "extracted2",
                            !.entities2 = ExtractEntities(call.text)]
    /\ UNCHANGED <<conversations, entities, relationships, clock, task, calls,
                   hist, categories,
                   subcategories>>

\* categorizer.categorize_content(text, entities), with the extracted
\* entities or with an empty list
CallCategorizeContent ==
    /\ call.pc = "extracted2"
    /\ \E ents \in {<<>>, call.entities} :
         call' = [call EXCEPT !.pc = "categorized", !.cat_entities = ents,
                     !.category = CategorizeContent(categories, call.text, ents)]
    /\ UNCHANGED <<conversations, entities, relationships, clock, task, calls,
                   hist, categories,
                   subcategories>>

\* the same call again
RecallCategorizeContent ==
    /\ call.pc = "categorized"
    /\ call' = [call EXCEPT !.pc = "categorized2",
                   !.category2 = CategorizeContent(categories, call.text,
                                                   call.cat_entities)]
    /\ UNCHANGED <<conversations, entities, relationships, clock, task, calls,
                   hist, categories,
                   subcategories>>

\* coach.generate_insights(user_message, entities, relevant_context)
CallGenerateInsights ==
    /\ call.pc = "categorized2"
    /\ \E ctx \in Contexts :
         call' = [call EXCEPT !.pc = "insights", !.ctx = ctx,
                     !.insights = GenerateInsightsOf(call.text, call.entities, ctx)]
    /\ UNCHANGED <<conversations, entities, relationships, clock, task, calls,
                   hist, categories,
                   subcategories>>

\* time passes between the two calls
Tick ==
    /\ call.pc = "insights"
    /\ clock < MaxClock
    /\ clock' = clock + 1
    /\ UNCHANGED <<conversations, entities, relationships, task, calls, hist,
                   categories, subcategories, call>>

\* the same call again
RecallGenerateInsights ==
    /\ call.pc = "insights"
    /\ call' = [call EXCEPT !.pc = "insights2",
                   !.insights2 = GenerateInsightsOf(call.text, call.entities, call.ctx)]
    /\ UNCHANGED <<conversations, entities, relationships, clock, task, calls,
                   hist, categories,
                   subcategories>>

NextPipeline ==
    \/ CallExtractEntities
    \/ RecallExtractEntities
    \/ CallCategorizeContent
    \/ RecallCategorizeContent
    \/ CallGenerateInsights
    \/ Tick
    \/ RecallGenerateInsights

SpecPipeline == InitPipeline /\ [][NextPipeline]_vars

---------------------------------------------------------------------------
(* The store written with save_conversation and read back with            *)
(* get_conversation_history and get_relevant_context, one call after the  *)
(* other.  call.written keeps, per conversation written, the arguments of *)
(* its save_conversation call.                                            *)

\* limit: int = 10 of get_conversation_history
DefaultLimit == 10

HistorySessions == {"s1", "s2"}

\* the (session_id, message) arguments of the writes: in session "s1" the
\* message with two entities, in session "s2" the one without entities
HistoryWrites == { <<"s1", 3>>, <<"s2", 1>> }

HistoryCall(op, session, msg, result, written) ==
    [pc |-> "history", op |-> op, session |-> session, msg |-> msg,
     result |-> result, written |-> written]

InitHistory ==
    /\ conversations = <<>>
    /\ entities = <<>>
    /\ relationships = EmptyBag
    /\ clock = 1
    /\ task = [p \in Procs |-> Idle]
    /\ calls = 0
    /\ hist = [key \in AllKeys |-> [n |-> 0, first |-> EmptyMeta]]
    /\ categories = BaseCategories
    /\ subcategories = BaseSubcategories
    /\ call = HistoryCall("none", NoSession, 0, <<>>, <<>>)

\* save_conversation(session_id, user_message, adam_response, entities)
HistorySaveConversation(s, m) ==
    /\ Len(conversations) < MaxConversations
    /\ \E uid \in Uuid4(conversations) :
         LET row == [id |-> uid, session_id |-> s, timestamp |-> clock,
                     user_message |-> Messages[m].text,
                     entities_json |-> JsonDumps(Messages[m].entities)]
         IN  IF PrimaryKeyTaken(conversations, uid)
             THEN /\ call' = HistoryCall("save_conversation", s, m,
                                         "IntegrityError", call.written)
                  /\ UNCHANGED <<conversations, clock>>
             ELSE /\ conversations' = InsertConversation(conversations, row)
                  /\ clock' = clock + 1
                  /\ call' = HistoryCall("save_conversation", s, m, uid,
                                Append(call.written,
                                       [id |-> uid, session_id |-> s,
                                        entities |-> Messages[m].entities]))
    /\ UNCHANGED <<entities, relationships, task, calls, hist, categories,
                   subcategories>>

\* get_conversation_history(session_id), or get_conversation_history()
HistoryGetConversationHistory(s) ==
    /\ call' = HistoryCall("get_conversation_history", s, 0,
                           GetConversationHistory(conversations, s, DefaultLimit),
                           call.written)
    /\ UNCHANGED <<conversations, entities, relationships, clock, task, calls,
                   hist, categories,
                   subcategories>>

\* get_relevant_context(user_message, entities, session_id)
HistoryGetRelevantContext(m, s) ==
    /\ call' = HistoryCall("get_relevant_context", s, m,
                           GetRelevantContext(conversations, m, s), call.written)
    /\ UNCHANGED <<conversations, entities, relationships, clock, task, calls,
                   hist, categories,
                   subcategories>>

NextHistory ==
    \/ \E w \in HistoryWrites : HistorySaveConversation(w[1], w[2])
    \/ \E s \in HistorySessions \cup {NoSession} : HistoryGetConversationHistory(s)
    \/ \E m \in DOMAIN Messages : HistoryGetRelevantContext(m, "s1")

SpecHistory == InitHistory /\ [][NextHistory]_vars

---------------------------------------------------------------------------
(* The entities table written with save_entity and read with get_entities, *)
(* one call after the other                                                *)

\* the (name, type) arguments of the save_entity calls
SavedKeys == { <<"Q1", "date">>, <<"Q2", "date">>, <<"Ana", "person">> }

\* the entity_type arguments of get_entities
EntityTypes == { NoType, "date", "person" }

\* the limit arguments of get_entities
Limits == -1..MaxLimit

EntitiesCall(op, type, limit, result, saves) ==
    [pc |-> "entities", op |-> op, type |-> type, limit |-> limit,
     result |-> result, saves |-> saves]

InitEntities ==
    /\ conversations = <<>>
    /\ entities = <<>>
    /\ relationships = EmptyBag
    /\ clock = 1
    /\ task = [p \in Procs |-> Idle]
    /\ calls = 0
    /\ hist = [key \in AllKeys |-> [n |-> 0, first |-> EmptyMeta]]
    /\ categories = BaseCategories
    /\ subcategories = BaseSubcategories
    /\ call = EntitiesCall("none", NoType, 0, <<>>, 0)

\* save_entity(name, entity_type, metadata), from its SELECT to its return
EntitiesSaveEntity(key, meta) ==
    /\ call.saves < MaxSaves
    /\ \E e \in SelectEntity(entities, key[1], key[2]), uid \in Uuid4(entities) :
         LET row == [id |-> uid, name |-> key[1], type |-> key[2],
                     metadata_json |-> JsonDumps(meta),
                     first_seen |-> clock, mention_count |-> 1]
         IN  IF e = None /\ PrimaryKeyTaken(entities, uid)
             THEN /\ call' = EntitiesCall("save_entity", key[2], 0,
                                          "IntegrityError", call.saves + 1)
                  /\ clock' = clock + 1
                  /\ UNCHANGED entities
             ELSE /\ entities' = SaveEntityWrite(entities, e, row)
                  /\ clock' = IF e = None THEN clock + 1 ELSE clock
                  /\ call' = EntitiesCall("save_entity", key[2], 0,
                                          IF e # None THEN e[1] ELSE uid,
                                          call.saves + 1)
    /\ UNCHANGED <<conversations, relationships, task, calls, hist, categories,
                   subcategories>>

\* get_entities(entity_type, limit)
EntitiesGetEntities(type, limit) ==
    /\ call' = EntitiesCall("get_entities", type, limit,
                            GetEntities(entities, type, limit), call.saves)
    /\ UNCHANGED <<conversations, entities, relationships, clock, task, calls,
                   hist, categories,
                   subcategories>>

NextEntities ==
    \/ \E key \in SavedKeys, meta \in Metadatas : EntitiesSaveEntity(key, meta)
    \/ \E type \in EntityTypes, limit \in Limits : EntitiesGetEntities(type, limit)

SpecEntities == InitEntities /\ [][NextEntities]_vars

---------------------------------------------------------------------------
(* The categorizer: update_categories and categorize_content called one   *)
(* after the other                                                        *)

\* the new_categories arguments: a weight and a new key for a known
\* category, a weight alone, keywords alone, a new category, and two
\* categories in one call
CategoryUpdates ==
    { << <<"work", [weight |-> 20, icon |-> "w"]>> >>,
      << <<"personal", [weight |-> 20]>> >>,
      << <<"events", [keywords |-> <<"reunión", "ana">>]>> >>,
      << <<"pets", [keywords |-> <<"ana", "reunión">>, weight |-> 10]>> >>,
      << <<"events", [keywords |-> <<"q1">>]>>,
         <<"pets", [keywords |-> <<"proyecto">>, weight |-> 10]>> >> }

\* extract_entities(text) for the texts of the model
TextEntities == [text \in Texts |-> ExtractEntities(text)]

TaxonomyCall(op, update, text, ents, category, updates) ==
    [pc |-> IF op = "categorize_content" THEN "taxonomy_done" ELSE "taxonomy",
     op |-> op, update |-> update, text |-> text,
     entities |-> ents, category |-> category, updates |-> updates]

InitTaxonomy ==
    /\ conversations = <<>>
    /\ entities = <<>>
    /\ relationships = EmptyBag
    /\ clock = 1
    /\ task = [p \in Procs |-> Idle]
    /\ calls = 0
    /\ hist = [key \in AllKeys |-> [n |-> 0, first |-> EmptyMeta]]
    /\ categories = BaseCategories
    /\ subcategories = BaseSubcategories
    /\ call = TaxonomyCall("none", <<>>, "", <<>>, "", 0)

\* categorizer.update_categories(new_categories)
TaxonomyUpdateCategories(new_categories) ==
    /\ call.pc = "taxonomy"
    /\ call.updates < MaxUpdates
    /\ categories' = UpdateCategories(categories, new_categories, 1)
    /\ call' = TaxonomyCall("update_categories", new_categories, "", <<>>, "",
                            call.updates + 1)
    /\ UNCHANGED <<conversations, entities, relationships, clock, task, calls,
                   hist, subcategories>>

\* categorizer.categorize_content(text, entities), with the entities of the
\* text or with an empty list; the last call of a behaviour
TaxonomyCategorizeContent(text) ==
    /\ call.pc = "taxonomy"
    /\ \E ents \in {<<>>, TextEntities[text]} :
         call' = TaxonomyCall("categorize_content", <<>>, text, ents,
                              CategorizeContent(categories, text, ents),
                              call.updates)
    /\ UNCHANGED <<conversations, entities, relationships, clock, task, calls,
                   hist, categories, subcategories>>

NextTaxonomy ==
    \/ \E new_categories \in CategoryUpdates : TaxonomyUpdateCategories(new_categories)
    \/ \E text \in Texts : TaxonomyCategorizeContent(text)

SpecTaxonomy == InitTaxonomy /\ [][NextTaxonomy]_vars

---------------------------------------------------------------------------
(* get_relevant_context and get_conversation_history called on a store    *)
(* that earlier save_conversation calls have left.  A store is described  *)
(* by its blocks, oldest first: a block is a number of conversations of   *)
(* one session and one text, saved one after the other.                   *)

\* the (session_id, user_message) of the conversations of a block
BlockKinds == { <<"s1", "Q1 Q1">>, <<"s2", "Reunión">> }

\* the sizes of a block: one conversation, or as many as get_relevant_context
\* scans for keywords, or scans for entities
BlockLengths == { 1, KeywordScanLimit, EntityScanLimit }

Blocks == { [session_id |-> kind[1], text |-> kind[2], length |-> n] :
                kind \in BlockKinds, n \in BlockLengths }

\* the user messages of the queries
QueryTexts == { "UNIÓN", "q1 Unión", "Q1 Q1", "ión", "REUNIÓN q1" }

\* recognizer.extract_entities of the texts stored and asked
RetrievalEntities ==
    [text \in QueryTexts \cup { kind[2] : kind \in BlockKinds } |->
        ExtractEntities(text)]

\* the block of the j-th conversation saved
RECURSIVE BlockOf(_, _, _)
BlockOf(bs, k, j) ==
    IF j <= bs[k].length THEN bs[k] ELSE BlockOf(bs, k + 1, j - bs[k].length)

RECURSIVE TotalLength(_)
TotalLength(bs) ==
    IF bs = <<>> THEN 0 ELSE bs[1].length + TotalLength(Tail(bs))

\* the sequences of at most n blocks
RECURSIVE BlockSeqs(_)
BlockSeqs(n) ==
    IF n = 0 THEN { <<>> }
    ELSE LET shorter == BlockSeqs(n - 1)
         IN  shorter \cup { Append(bs, b) : bs \in shorter, b \in Blocks }

\* the stores of the specification, as blocks
Stores == { bs \in BlockSeqs(MaxBlocks) : TotalLength(bs) <= MaxStored }

\* the conversations table after save_conversation of every conversation
\* of the blocks, with distinct ids and one tick of the clock per save
StoreOf(bs) ==
    [j \in 1..TotalLength(bs) |->
        LET b == BlockOf(bs, 1, j)
        IN  [id |-> j, session_id |-> b.session_id, timestamp |-> j,
             user_message |-> b.text,
             entities_json |-> JsonDumps(RetrievalEntities[b.text])]]

\* the limits of get_conversation_history: SQLite's no-limit, none, one and
\* the default
HistoryLimits == { -1, 0, 1, DefaultLimit }

RetrievalCall(op, session, text, ents, limit, result, uncut) ==
    [pc |-> IF op = "none" THEN "retrieval" ELSE "retrieval_done",
     op |-> op, session |-> session, text |-> text, entities |-> ents,
     limit |-> limit, result |-> result, uncut |-> uncut]

InitRetrieval ==
    /\ \E bs \in Stores :
         /\ conversations = StoreOf(bs)
         /\ clock = TotalLength(bs) + 1
    /\ entities = <<>>
    /\ relationships = EmptyBag
    /\ task = [p \in Procs |-> Idle]
    /\ calls = 0
    /\ hist = [key \in AllKeys |-> [n |-> 0, first |-> EmptyMeta]]
    /\ categories = BaseCategories
    /\ subcategories = BaseSubcategories
    /\ call = RetrievalCall("none", NoSession, "", <<>>, 0, <<>>, <<>>)

\* memory.get_relevant_context(user_message, entities, session_id) with the
\* entities of the message; uncut is relevant_context before the final slice
RetrievalGetRelevantContext(text, s) ==
    /\ call.pc = "retrieval"
    /\ LET ents == RetrievalEntities[text]
       IN  call' = RetrievalCall("get_relevant_context", s, text, ents, 0,
                                 RelevantContext(conversations, text, ents, s),
                                 ContextBeforeSlice(conversations, text, ents))
    /\ UNCHANGED <<conversations, entities, relationships, clock, task, calls,
                   hist, categories, subcategories>>

\* db.get_conversation_history(session_id, limit)
RetrievalGetConversationHistory(s, limit) ==
    /\ call.pc = "retrieval"
    /\ call' = RetrievalCall("get_conversation_history", s, "", <<>>, limit,
                             GetConversationHistory(conversations, s, limit),
                             <<>>)
    /\ UNCHANGED <<conversations, entities, relationships, clock, task, calls,
                   hist, categories, subcategories>>

NextRetrieval ==
    \/ \E text \in QueryTexts, s \in HistorySessions \cup {NoSession} :
          RetrievalGetRelevantContext(text, s)
    \/ \E s \in HistorySessions \cup {NoSession}, limit \in HistoryLimits :
          RetrievalGetConversationHistory(s, limit)

SpecRetrieval == InitRetrieval /\ [][NextRetrieval]_vars

---------------------------------------------------------------------------
(* coach.generate_insights called on a message, its entities and a context  *)
(* list.  The call keeps what each stage appended: the four local lists of  *)
(* generate_insights and the list it returns.                               *)

\* the user messages of the calls
CoachTexts == { ScenarioText, "call ANA", "María", "Q1" }

\* the conversations a context list is made of: two of one text, one of another
ContextItems ==
    << [id |-> 1, text |-> "Proyecto work Ana"],
       [id |-> 2, text |-> "Proyecto work Ana"],
       [id |-> 3, text |-> "familia project"] >>

\* recognizer.extract_entities of the messages and of the context texts
CoachEntities ==
    [text \in CoachTexts \cup { ContextItems[i].text : i \in DOMAIN ContextItems } |->
        ExtractEntities(text)]

\* the context conversations as get_conversation_history returns them
ContextDicts ==
    [i \in DOMAIN ContextItems |->
        ConversationDict([id |-> ContextItems[i].id, session_id |-> "s1",
                          timestamp |-> ContextItems[i].id,
                          user_message |-> ContextItems[i].text,
                          entities_json |-> JsonDumps(CoachEntities[ContextItems[i].text])])]

\* the context lists: up to n conversations, a conversation as often as the
\* retrieval collected it
RECURSIVE ContextLists(_)
ContextLists(n) ==
    IF n = 0 THEN { <<>> }
    ELSE LET shorter == ContextLists(n - 1)
         IN  shorter \cup { Append(ctx, ContextDicts[i]) :
                               ctx \in shorter, i \in DOMAIN ContextDicts }

CoachCall(pc, text, ctx, message, reminders, patterns, suggestions, insights) ==
    [pc |-> pc, text |-> text, entities |-> CoachEntities[text], ctx |-> ctx,
     message_insights |-> message, reminder_insights |-> reminders,
     pattern_insights |-> patterns, proactive_suggestions |-> suggestions,
     insights |-> insights]

InitCoach ==
    /\ conversations = <<>>
    /\ entities = <<>>
    /\ relationships = EmptyBag
    /\ clock = 1
    /\ task = [p \in Procs |-> Idle]
    /\ calls = 0
    /\ hist = [key \in AllKeys |-> [n |-> 0, first |-> EmptyMeta]]
    /\ categories = BaseCategories
    /\ subcategories = BaseSubcategories
    /\ call \in { CoachCall("coach", text, <<>>, <<>>, <<>>, <<>>, <<>>, <<>>) :
                    text \in CoachTexts }

\* coach.generate_insights(user_message, entities, relevant_context)
CoachGenerateInsights(ctx) ==
    /\ call.pc = "coach"
    /\ call' = CoachCall("coach_done", call.text, ctx,
                         AnalyzeMessageForInsights(call.text),
                         GenerateReminders(call.entities, ctx, 1),
                         DetectPatterns(ctx),
                         GenerateProactiveSuggestions(call.entities, ctx),
                         GenerateInsightsOf(call.text, call.entities, ctx))
    /\ UNCHANGED <<conversations, entities, relationships, clock, task, calls,
                   hist, categories, subcategories>>

NextCoach == \E ctx \in ContextLists(MaxContextItems) : CoachGenerateInsights(ctx)

SpecCoach == InitCoach /\ [][NextCoach]_vars

---------------------------------------------------------------------------
(* Properties *)

\* the rows of entities with the given (name, type)
RowsOf(key) ==
    { k \in DOMAIN entities :
        entities[k].name = key[1] /\ entities[k].type = key[2] }

RECURSIVE SumOver(_)
SumOver(ks) ==
    IF ks = {} THEN 0
    ELSE LET k == CHOOSE k \in ks : TRUE
         IN  entities[k].mention_count + SumOver(ks \ {k})

\* the mention_count values stored for (name, type), summed
SumCounts(key) == SumOver(RowsOf(key))

\* some caller is inside save_entity(name, type, *)
InSaveEntity(key) ==
    \E p \in Procs : /\ task[p].pc \in {"se_select", "se_write"}
                     /\ <<task[p].name, task[p].type>> = key

\* process_message of caller p has returned
Completed(p) == task[p].op = "process_message" /\ task[p].pc = "done"

\* C1: after N >= 1 save_entity calls for (name, type) that ran one after
\* the other on a store that had no such row, exactly one entities row has
\* that name and type and its mention_count is N.
C1_SequentialCount ==
    \A key \in AllKeys :
        hist[key].n >= 1 =>
            /\ Cardinality(RowsOf(key)) = 1
            /\ \A k \in RowsOf(key) : entities[k].mention_count = hist[key].n

\* C1 witness: three calls for one (name, type) have returned
C1_Witness ==
    \E key \in AllKeys :
        /\ hist[key].n = 3
        /\ \E k \in RowsOf(key) : entities[k].mention_count = 3

\* C2: in every reachable state, whatever the interleaving of save_entity
\* calls, at most one entities row exists per (name, type) and every row
\* has mention_count >= 1.
C2_UniquePerNameType ==
    /\ \A key \in AllKeys : Cardinality(RowsOf(key)) <= 1
    /\ \A k \in DOMAIN entities : entities[k].mention_count >= 1

\* C3: when the save_entity calls for (name, type), run concurrently in any
\* interleaving, have all returned, the mention_count values stored for
\* (name, type) sum to the number of calls that returned (the store starts
\* without rows): no increment is lost.
C3_NoLostIncrement ==
    \A key \in AllKeys : ~InSaveEntity(key) => SumCounts(key) = hist[key].n

\* C3 witness: two calls whose SELECTs both ran before either write have
\* returned (each inserted a row)
C3_Witness ==
    \E key \in AllKeys :
        /\ ~InSaveEntity(key)
        /\ hist[key].n = 2
        /\ Cardinality(RowsOf(key)) = 2

\* C4: save_relationship called again with the same (entity1_id,
\* entity2_id, relationship_type) and another context replaces the row: the
\* table never holds two rows with the same triple and different contexts.
C4_LastWriteWins ==
    \A r1, r2 \in BagToSet(relationships) :
        (/\ r1.entity1_id = r2.entity1_id
         /\ r1.entity2_id = r2.entity2_id
         /\ r1.relationship_type = r2.relationship_type)
        => r1.context = r2.context

\* the ids of the persisted rows of an extracted entity
PersistedIds(e) == { entities[k].id : k \in RowsOf(<<e.name, e.type>>) }

\* C5: after process_message has completed for a message with two
\* extracted entities A and B, a mentioned_together relationship between
\* the persisted rows of A and B exists, and get_relationships of either
\* row's id returns it.
C5_MentionedTogether ==
    \A p \in Procs :
        Completed(p) =>
            LET ents == Messages[task[p].msg].entities
            IN  \A a, b \in DOMAIN ents :
                    ents[a] # ents[b] =>
                        \E ia \in PersistedIds(ents[a]), ib \in PersistedIds(ents[b]) :
                        \E r \in BagToSet(relationships) :
                            /\ r.relationship_type = "mentioned_together"
                            /\ {r.entity1_id, r.entity2_id} = {ia, ib}
                            /\ r \in DOMAIN GetRelationships(relationships, entities, ia)
                            /\ r \in DOMAIN GetRelationships(relationships, entities, ib)

\* C6: when process_message fails in save_entity or save_relationship after
\* it saved the conversation, the store does not keep the conversation row
\* of that call.
C6_NoPartialResult ==
    \A p \in Procs :
        (/\ task[p].op = "process_message"
         /\ task[p].pc = "failed"
         /\ task[p].err \in {"save_entity", "save_relationship"})
        => ~\E k \in DOMAIN conversations : conversations[k].id = task[p].conv_id

\* C7: whenever generate_insights fails in process_message, the
\* conversation row of that message is in the store.
C7_ConversationKept ==
    \A p \in Procs :
        (/\ task[p].op = "process_message"
         /\ task[p].pc = "failed"
         /\ task[p].err = "generate_insights")
        => \E k \in DOMAIN conversations :
              /\ conversations[k].id = task[p].conv_id
              /\ conversations[k].user_message = Messages[task[p].msg].text

\* C7 witness: generate_insights failed for a message with entities
C7_Witness ==
    \E p \in Procs :
        /\ task[p].op = "process_message"
        /\ task[p].pc = "failed"
        /\ task[p].err = "generate_insights"
        /\ Messages[task[p].msg].entities # <<>>

ConversationIds == { conversations[k].id : k \in DOMAIN conversations }

\* C8: conversations are append-only.  In every state the ids of the rows
\* are pairwise distinct and a completed process_message has exactly one
\* row under the id it returns; every step leaves the table unchanged or
\* appends one row, with an id no row had, for a caller at its
\* save_conversation.
C8_AppendOnly ==
    /\ [](/\ \A k, l \in DOMAIN conversations :
                conversations[k].id = conversations[l].id => k = l
          /\ \A p \in Procs :
                Completed(p) =>
                    Cardinality({ k \in DOMAIN conversations :
                        conversations[k].id = task[p].conv_id }) = 1)
    /\ [][\/ conversations' = conversations
          \/ \E p \in Procs :
                /\ task[p].pc = "save_conversation"
                /\ task'[p].conv_id \notin ConversationIds
                /\ Len(conversations') = Len(conversations) + 1
                /\ SubSeq(conversations', 1, Len(conversations)) = conversations
                /\ conversations'[Len(conversations')].id = task'[p].conv_id]_vars

\* C8 witness: two process_message calls completed, both with entities
C8_Witness ==
    /\ \A p \in Procs : Completed(p) /\ Messages[task[p].msg].entities # <<>>
    /\ Len(conversations) = 2

\* C9: over save_entity calls that run one after the other, an entities
\* row is never deleted and keeps its id, name and type; its mention_count
\* never decreases; a save_entity that returns for a (name, type) without
\* a row creates the row with mention_count 1, and one that returns for a
\* (name, type) with a row adds exactly 1 to that row and creates none.
C9_NeverDeletedCountUp ==
    [][/\ Len(entities') >= Len(entities)
       /\ \A k \in DOMAIN entities :
            /\ entities'[k].id = entities[k].id
            /\ entities'[k].name = entities[k].name
            /\ entities'[k].type = entities[k].type
            /\ entities'[k].mention_count >= entities[k].mention_count
       /\ \A key \in AllKeys :
            IF hist'[key].n = hist[key].n
            THEN \A k \in DOMAIN entities' :
                    <<entities'[k].name, entities'[k].type>> = key =>
                        k \in DOMAIN entities /\ entities'[k] = entities[k]
            ELSE IF RowsOf(key) = {}
            THEN \E k \in DOMAIN entities' :
                    /\ k = Len(entities) + 1
                    /\ Len(entities') = k
                    /\ <<entities'[k].name, entities'[k].type>> = key
                    /\ entities'[k].mention_count = 1
            ELSE /\ Len(entities') = Len(entities)
                 /\ \E k \in RowsOf(key) :
                      /\ entities'[k].mention_count = entities[k].mention_count + 1
                      /\ \A l \in DOMAIN entities \ {k} : entities'[l] = entities[l]]_vars

\* C9 witness: a row was created and then counted up twice
C9_Witness == \E k \in DOMAIN entities : entities[k].mention_count = 3

\* C10: after the same name and type were saved twice, one after the
\* other, one row has them, with mention_count 2 and with the metadata of
\* the first save as its metadata_json.
C10_FirstMetadataKept ==
    \A key \in AllKeys :
        hist[key].n = 2 =>
            /\ Cardinality(RowsOf(key)) = 1
            /\ \A k \in RowsOf(key) :
                  /\ entities[k].mention_count = 2
                  /\ entities[k].metadata_json = JsonDumps(hist[key].first)

\* C10 witness: the second save, with metadata other than the first's, has
\* returned
C10_Witness ==
    \E p \in Procs :
        /\ task[p].op = "save_entity"
        /\ task[p].pc = "done"
        /\ hist[<<task[p].name, task[p].type>>].n = 2
        /\ task[p].meta # hist[<<task[p].name, task[p].type>>].first

\* the (name, type, start) of the entities of a list, in its order
Triples(ents) == [k \in DOMAIN ents |-> <<ents[k].name, ents[k].type, ents[k].start>>]

\* call.result holds what get_conversation_history(s) returned, s not None
ReadSession ==
    /\ call.pc = "history"
    /\ call.op = "get_conversation_history"
    /\ call.session # NoSession

\* the k-th conversation written is returned with the list it was written with
ReturnedAsWritten(k) ==
    \E r \in DOMAIN call.result :
        /\ call.result[r].id = call.written[k].id
        /\ Triples(call.result[r].entities) = Triples(call.written[k].entities)

\* the conversations written in the session of the read, in writing order
WrittenInSession ==
    { k \in DOMAIN call.written : call.written[k].session_id = call.session }

\* the number of conversations of the session written after the k-th
WrittenLater(k) == Cardinality({ l \in WrittenInSession : l > k })

C12_ContextWindow ==
    (call.pc = "history" /\ call.op = "get_relevant_context") =>
        Len(call.result) <= MaxContext

\* C12 witness: the scans by entity found more than 10 conversations, and 10
\* are returned
C12_Witness ==
    /\ call.pc = "history"
    /\ call.op = "get_relevant_context"
    /\ Len(EntityMatches(conversations, Messages[call.msg].entities, 1)) > MaxContext
    /\ Len(call.result) = MaxContext

\* C13: generate_insights returns at most 5 insights, for every message,
\* entity list and context, however many detectors fire and however many
\* person or project entities there are.
C13_InsightCap ==
    call.pc \in {"insights", "insights2"} =>
        /\ Len(call.insights) <= MaxInsights
        /\ call.pc = "insights2" => Len(call.insights2) <= MaxInsights

\* C13 witness: the detectors produced more than 5 insights, among them
\* more than 5 project reminders, and 5 were returned
C13_Witness ==
    /\ call.pc = "insights"
    /\ Len(AllInsights(call.text, call.entities, call.ctx)) > MaxInsights
    /\ Len(SelectSeq(call.entities, LAMBDA e : e.type = "project")) > MaxInsights
    /\ Len(call.insights) = MaxInsights

\* C14: the list extract_entities returns is sorted ascending by start and
\* no two of its entities have the same (lowercased name, type, start).
C14_SortedUnique ==
    call.pc \notin {"none", "new"} =>
        \A k, l \in DOMAIN call.entities :
            k < l => /\ call.entities[k].start <= call.entities[l].start
                     /\ DedupKey(call.entities[k]) # DedupKey(call.entities[l])

\* C14 witness: the patterns found the same (name, type, start) twice and
\* found a later start before an earlier one; the list returned is shorter
C14_Witness ==
    /\ call.pc = "extracted"
    /\ LET raw == RawEntities(call.text)
       IN  /\ \E k, l \in DOMAIN raw : k < l /\ DedupKey(raw[k]) = DedupKey(raw[l])
           /\ \E k, l \in DOMAIN raw : k < l /\ raw[k].start > raw[l].start
           /\ Len(call.entities) < Len(raw)
           /\ Len(call.entities) > 1

\* C15: every entity extract_entities returns has a type among person,
\* date, project, company, url, email, phone and unknown.
C15_TypesInEnum ==
    call.pc \notin {"none", "new"} =>
        \A k \in DOMAIN call.entities :
            call.entities[k].type \in {"person", "date", "project", "company",
                                       "url", "email", "phone", "unknown"}

\* C16: categorize_content returns "general" exactly when the score of every
\* category (keyword hits plus entity bonus) is 0; so it does for a text
\* with no keyword of any category and an empty entity list.
C16_GeneralFallback ==
    call.pc \in {"categorized", "categorized2"} =>
        LET scores == Scores(categories, call.text, call.cat_entities)
            no_keyword == \A c \in DOMAIN categories :
                            \A k \in DOMAIN categories[c].keywords :
                                ~InLower(categories[c].keywords[k], call.text)
        IN  /\ call.category = "general" <=> \A c \in DOMAIN scores : scores[c] = 0
            /\ (no_keyword /\ call.cat_entities = <<>>) => call.category = "general"

\* C16 witness: "general" was returned for a text without keywords and an
\* empty entity list, while the recognizer finds entities in that text
C16_Witness ==
    /\ call.pc = "categorized"
    /\ call.category = "general"
    /\ call.cat_entities = <<>>
    /\ call.entities # <<>>

\* the rows get_entities chooses from: those of the requested type, or all
Candidates ==
    { k \in DOMAIN entities :
        call.type = NoType \/ entities[k].type = call.type }

\* call.result holds what get_entities(call.type, call.limit) returned
ReadEntities == call.pc = "entities" /\ call.op = "get_entities"

\* the result is in the order mention_count desc, first_seen desc, its rows
\* are of the requested type, and no row of that type that was left out
\* comes before a returned row in that order
OrderedSelection ==
    /\ \A r \in DOMAIN call.result :
           \E k \in Candidates : entities[k].id = call.result[r].id
    /\ \A i, j \in DOMAIN call.result :
           i < j => ~Precedes(call.result[j], call.result[i])
    /\ \A k \in Candidates :
           (\A r \in DOMAIN call.result : call.result[r].id # entities[k].id)
               => \A r \in DOMAIN call.result :
                     ~Precedes(entities[k], call.result[r])

---------------------------------------------------------------------------
(* C18: for the text "Reunión con María sobre el proyecto FinOps el       *)
(* 15/03/2024" processed against an empty context, the entities hold      *)
(* exactly one person ("María"), exactly one project ("FinOps") and       *)
(* exactly one date ("15/03/2024"), the category is "work", and the       *)
(* insights hold exactly one follow_up of the meeting trigger and exactly *)
(* one project reminder, the one for "FinOps".                            *)

\* the entities of a type, in the order of the list
OfType(ents, type) == SelectSeq(ents, LAMBDA e : e.type = type)

\* the names of a list of entities, in the order of the list
NamesOf(ents) == [k \in DOMAIN ents |-> ents[k].name]

\* C18: the scenario text gives one person, one project, one date, the
\* category "work", one meeting follow_up and one project reminder
C18_Scenario ==
    (/\ call.pc = "insights"
     /\ call.text = ScenarioText
     /\ call.cat_entities = call.entities
     /\ call.ctx = <<>>) =>
        /\ NamesOf(OfType(call.entities, "person")) = << "María" >>
        /\ NamesOf(OfType(call.entities, "project")) = << "FinOps" >>
        /\ NamesOf(OfType(call.entities, "date")) = << "15/03/2024" >>
        /\ call.category = "work"
        /\ Len(SelectSeq(call.insights,
                         LAMBDA i : i.type = "follow_up" /\ i.kind = "meeting")) = 1
        /\ SelectSeq(call.insights, LAMBDA i : i.kind = "project")
               = << Insight("follow_up", "medium", "project", "FinOps", 0) >>

---------------------------------------------------------------------------
(* C19: for a fixed taxonomy, a second call of extract_entities on the    *)
(* same text, of categorize_content on the same text and entities, and of *)
(* generate_insights on the same message, entities and context returns    *)
(* what the first call returned, whatever time passed in between; and no  *)
(* call changes the patterns and keywords of the recognizer, the          *)
(* categories of the categorizer, or the store.                           *)

C19_SameResult ==
    /\ call.pc \notin {"new", "extracted"} => call.entities2 = call.entities
    /\ call.pc \in {"categorized2", "insights", "insights2"} =>
           call.category2 = call.category
    /\ call.pc = "insights2" => call.insights2 = call.insights

C19_NoStateChange ==
    call' # call =>
        /\ categories' = categories
        /\ conversations' = conversations
        /\ entities' = entities
        /\ relationships' = relationships

---------------------------------------------------------------------------
(* C20: every save_entity call for a (name, type) returns the same id,    *)
(* the id of the single row stored for that (name, type), and calls for   *)
(* different (name, type) pairs return different ids.                     *)

\* the callers holding the id that their last save_entity call returned
Returned == { p \in Procs : task[p].entity_id # NoId }

\* C20: the id returned for a (name, type) is that of its single row, the
\* same for every call, and differs between pairs
C20_StableId ==
    \A p \in Returned :
        LET key == <<task[p].name, task[p].type>>
        IN  /\ Cardinality(RowsOf(key)) = 1
            /\ \A k \in RowsOf(key) : entities[k].id = task[p].entity_id
            /\ \A q \in Returned :
                   (<<task[q].name, task[q].type>> = key)
                       <=> (task[q].entity_id = task[p].entity_id)

\* the scores of the categorize_content call held in call
CallScores == Scores(categories, call.text, call.entities)

\* categorize_content has returned, and some score is not 0
ScoredCall ==
    /\ call.pc = "taxonomy_done"
    /\ \E k \in DOMAIN CallScores : CallScores[k] # 0

\* C21: when some category score is non-zero, categorize_content returns a
\* category whose score is the maximum over all categories, and among the
\* categories with that score the one that comes first in the taxonomy: the
\* eight of __init__ in their order, then those update_categories added, in
\* the order they were added.
C21_FirstMaximum ==
    ScoredCall =>
        \E k \in DOMAIN categories :
            /\ call.category = categories[k].name
            /\ \A l \in DOMAIN categories : CallScores[l] <= CallScores[k]
            /\ \A l \in 1..(k - 1) : CallScores[l] < CallScores[k]

\* C21 witness: the category returned shares the maximum, which is not 0,
\* with "pets", a category that update_categories added, and is not "work"
C21_Witness ==
    /\ ScoredCall
    /\ call.category # "work"
    /\ \E k, l \in DOMAIN categories :
           /\ k < l
           /\ l > Len(BaseCategories)
           /\ categories[l].name = "pets"
           /\ categories[k].name = call.category
           /\ CallScores[k] = CallScores[l]
           /\ CallScores[k] = MaxScore(CallScores)
           /\ CallScores[k] > 0

\* the names of the taxonomy
CategoryNames(cats) == { cats[k].name : k \in DOMAIN cats }

\* the step is a call update_categories(call'.update)
UpdateStep ==
    /\ call'.pc = "taxonomy"
    /\ call'.op = "update_categories"
    /\ call'.updates = call.updates + 1

\* the items of the update whose category the taxonomy does not have
AddedItems(cats, update) ==
    SelectSeq(update, LAMBDA item : item[1] \notin CategoryNames(cats))

\* C22: update_categories merges shallowly.  A category of the taxonomy named
\* in the update keeps its place, gets exactly the config keys of the update
\* set to the update's values and keeps its other keys; a category the
\* taxonomy does not have is added, after the others, with the given config;
\* categories not named in the update and the subcategories are unchanged.
C22_ShallowMerge ==
    [][UpdateStep =>
        LET update == call'.update
            added == AddedItems(categories, update)
        IN  /\ Len(categories') = Len(categories) + Len(added)
            /\ \A k \in DOMAIN categories :
                   /\ categories'[k].name = categories[k].name
                   /\ (\A i \in DOMAIN update : update[i][1] # categories[k].name)
                          => categories'[k] = categories[k]
                   /\ \A i \in DOMAIN update :
                          update[i][1] = categories[k].name =>
                             /\ DOMAIN categories'[k]
                                    = DOMAIN categories[k] \cup DOMAIN update[i][2]
                             /\ \A key \in DOMAIN update[i][2] :
                                    categories'[k][key] = update[i][2][key]
                             /\ \A key \in DOMAIN categories[k] \ DOMAIN update[i][2] :
                                    categories'[k][key] = categories[k][key]
            /\ \A i \in DOMAIN added :
                   LET new == categories'[Len(categories) + i]
                   IN  /\ new.name = added[i][1]
                       /\ DOMAIN new = {"name"} \cup DOMAIN added[i][2]
                       /\ \A key \in DOMAIN added[i][2] : new[key] = added[i][2][key]
            /\ subcategories' = subcategories]_vars

\* C22 witness: one update_categories call has given "events" new keywords,
\* its weight kept, and added "pets" after the eight categories of __init__
C22_Witness ==
    /\ call.pc = "taxonomy"
    /\ call.op = "update_categories"
    /\ Len(call.update) = 2
    /\ Len(categories) = Len(BaseCategories) + 1
    /\ categories[Len(categories)].name = "pets"
    /\ \E k \in DOMAIN BaseCategories :
           /\ categories[k].name = "events"
           /\ categories[k].keywords = <<"q1">>
           /\ categories[k].keywords # BaseCategories[k].keywords
           /\ categories[k].weight = BaseCategories[k].weight
    /\ \A k \in DOMAIN BaseCategories :
           categories[k].name # "events" => categories[k] = BaseCategories[k]

---------------------------------------------------------------------------
(* Retrieval, stated on the store and the arguments of the call *)

\* the stored conversations newer than the j-th row
NewerThan(j) ==
    { l \in DOMAIN conversations :
        conversations[l].timestamp > conversations[j].timestamp }

\* the j-th row is one of the n most recent conversations of the store
AmongRecent(j, n) == Cardinality(NewerThan(j)) < n

\* the k-th query entity has a name, and the snapshot of the j-th row holds
\* an entity of that name, letter case apart
SharesName(j, k) ==
    LET snapshot == JsonLoads(conversations[j].entities_json)
    IN  /\ call.entities[k].name # ""
        /\ \E e \in DOMAIN snapshot :
              LowerStr(snapshot[e].name) = LowerStr(call.entities[k].name)

\* the rows the entity scan collects
EntityCollected ==
    { j \in DOMAIN conversations :
        /\ AmongRecent(j, EntityScanLimit)
        /\ \E k \in DOMAIN call.entities : SharesName(j, k) }

\* the rows among the 20 most recent whose user_message contains a word of
\* the query longer than 3 characters
KeywordMatched ==
    LET words == Split(call.text)
    IN  { j \in DOMAIN conversations :
            /\ AmongRecent(j, KeywordScanLimit)
            /\ \E w \in DOMAIN words :
                  /\ Len(words[w]) > 3
                  /\ Contains(LowerStr(words[w]),
                              LowerStr(conversations[j].user_message)) }

\* the ids of the rows of a set
IdsOfRows(rows) == { conversations[j].id : j \in rows }

\* the ids a call returned
ResultIds == { call.result[k].id : k \in DOMAIN call.result }

\* the k-th conversation returned is a keyword match with k - 1 newer
\* keyword matches: the matches come newest first, none left out before it
NewestKeywordMatches ==
    \A k \in DOMAIN call.result :
        \E j \in KeywordMatched :
            /\ call.result[k].id = conversations[j].id
            /\ Cardinality(NewerThan(j) \cap KeywordMatched) = k - 1

\* the statement of C23 as written: after a scan that collected nothing the
\* result is every keyword match
C23_EveryKeywordMatch ==
    call.op = "get_relevant_context" =>
        IF EntityCollected = {}
        THEN ResultIds = IdsOfRows(KeywordMatched)
        ELSE ResultIds \subseteq IdsOfRows(EntityCollected)

\* C23: get_relevant_context falls back to the keyword search exactly when
\* the entity scan of the 50 most recent conversations collected nothing; the
\* result is then the 10 most recent (all, when there are fewer) of the
\* conversations among the 20 most recent whose user_message contains, as a
\* substring and letter case apart, a whitespace-separated word of the query
\* longer than 3 characters, newest first; when the scan collected anything,
\* the result is not empty and holds collected conversations only
C23_KeywordFallback ==
    call.op = "get_relevant_context" =>
        IF EntityCollected = {}
        THEN /\ NewestKeywordMatches
             /\ Len(call.result) = Min(MaxContext, Cardinality(KeywordMatched))
        ELSE /\ call.result # <<>>
             /\ ResultIds \subseteq IdsOfRows(EntityCollected)

\* a query whose entity is stored, but not among the 50 most recent, and
\* whose word is in more of the 20 most recent than the result can hold
C23_Witness ==
    /\ call.op = "get_relevant_context"
    /\ EntityCollected = {}
    /\ \E j \in DOMAIN conversations, k \in DOMAIN call.entities : SharesName(j, k)
    /\ Cardinality(KeywordMatched) > MaxContext
    /\ \E j \in DOMAIN conversations :
          /\ ~ AmongRecent(j, KeywordScanLimit)
          /\ Contains("unión", LowerStr(conversations[j].user_message))
    /\ Len(call.result) = MaxContext

\* how often the j-th row is in relevant_context before the final slice
Occurrences(j) ==
    Cardinality({ k \in DOMAIN call.uncut : call.uncut[k].id = conversations[j].id })

\* the entries of the query entity list that share a name with the j-th row
MatchingEntries(j) ==
    Cardinality({ k \in DOMAIN call.entities : SharesName(j, k) })

\* the statement of C24 as written: every stored conversation, however old,
\* appears once per matching entry of the query entity list
C24_EveryStored ==
    (call.op = "get_relevant_context" /\ EntityCollected # {}) =>
        \A j \in DOMAIN conversations : Occurrences(j) = MatchingEntries(j)

\* C24: entity-based retrieval does not deduplicate: before truncation, a
\* conversation among the 50 most recent appears once for every entry of the
\* query entity list, with a non-empty name, whose name equals, letter case
\* apart, the name of some entity of the conversation's snapshot; an older
\* conversation does not appear
C24_OncePerEntry ==
    (call.op = "get_relevant_context" /\ EntityCollected # {}) =>
        \A j \in DOMAIN conversations :
            Occurrences(j) = IF AmongRecent(j, EntityScanLimit)
                             THEN MatchingEntries(j) ELSE 0

\* the query names Q1 twice: a conversation among the 50 most recent is
\* collected twice, an older one with the same snapshot is not collected
C24_Witness ==
    /\ call.op = "get_relevant_context"
    /\ Len(call.entities) = 2
    /\ \E j \in DOMAIN conversations :
          /\ AmongRecent(j, EntityScanLimit)
          /\ MatchingEntries(j) = 2
          /\ Occurrences(j) = 2
    /\ \E j \in DOMAIN conversations :
          /\ ~ AmongRecent(j, EntityScanLimit)
          /\ MatchingEntries(j) = 2
          /\ Occurrences(j) = 0

\* C29: get_relevant_context ignores its session_id argument: on the same
\* store, message and entity list, every other session_id gives the result
\* the call gave
C29_SessionIgnored ==
    call.op = "get_relevant_context" =>
        \A s \in (HistorySessions \cup {NoSession}) \ {call.session} :
            RelevantContext(conversations, call.text, call.entities, s) = call.result

\* a call for session s1 whose context holds a conversation of session s2
\* and none of s1, although conversations of s1 are stored
C29_Witness ==
    /\ call.op = "get_relevant_context"
    /\ call.session = "s1"
    /\ call.result # <<>>
    /\ \A k \in DOMAIN call.result : call.result[k].session_id = "s2"
    /\ \E j \in DOMAIN conversations : conversations[j].session_id = "s1"

\* the rows get_conversation_history may return: those of the session asked,
\* or all rows when no session is asked
OfSession ==
    { j \in DOMAIN conversations :
        call.session = NoSession \/ conversations[j].session_id = call.session }

\* the k-th conversation returned is a row of the session with k - 1 newer
\* rows of the session: only rows of the session, newest first, none of the
\* session left out before a returned one
NewestOfSession ==
    \A k \in DOMAIN call.result :
        \E j \in OfSession :
            /\ call.result[k].id = conversations[j].id
            /\ Cardinality(NewerThan(j) \cap OfSession) = k - 1

---------------------------------------------------------------------------
(* The coach, stated on the lists a generate_insights call produced *)

\* what the four stages appended, in the order of the claim
StagesInOrder ==
    call.message_insights \o call.reminder_insights
    \o call.pattern_insights \o call.proactive_suggestions

\* C25: generate_insights returns exactly the first 5 elements, or all if
\* there are fewer, of the message-triggered insights followed by the
\* entity-triggered reminders, the pattern insights and the proactive
\* suggestions
C25_FirstFiveInOrder ==
    call.pc = "coach_done" =>
        /\ Len(call.insights) = Min(5, Len(StagesInOrder))
        /\ \A k \in DOMAIN call.insights : call.insights[k] = StagesInOrder[k]

\* every stage produced something, the first three stages five insights
\* together: the proactive suggestions are not returned
C25_Witness ==
    /\ call.pc = "coach_done"
    /\ call.message_insights # <<>>
    /\ call.reminder_insights # <<>>
    /\ call.pattern_insights # <<>>
    /\ call.proactive_suggestions # <<>>
    /\ Len(call.message_insights) + Len(call.reminder_insights)
          + Len(call.pattern_insights) = 5
    /\ Len(call.insights) = 5
    /\ \A k \in DOMAIN call.insights : call.insights[k].type # "search"

\* some context item of the call has an entity of name n, letter case apart
NamedInContext(n) ==
    \E k \in DOMAIN call.ctx :
        \E e \in DOMAIN call.ctx[k].entities :
            LowerStr(call.ctx[k].entities[e].name) = LowerStr(n)

\* the entities of the call that get a reminder, in entity order
Reminded ==
    SelectSeq(call.entities,
              LAMBDA e : \/ e.type = "person" /\ NamedInContext(e.name)
                         \/ e.type = "project")

\* C26: the reminders are, in entity order, one follow_up naming the entity
\* for every person entity whose name some context item has among its
\* entities, letter case apart, and one for every project entity whatever
\* the context; no other entity gets one
C26_Reminders ==
    call.pc = "coach_done" =>
        /\ Len(call.reminder_insights) = Len(Reminded)
        /\ \A k \in DOMAIN call.reminder_insights :
              /\ call.reminder_insights[k].type = "follow_up"
              /\ call.reminder_insights[k].kind = Reminded[k].type
              /\ call.reminder_insights[k].entity = Reminded[k].name

\* a message with a person the context names in another letter case, a
\* person the context does not name, a project and an entity of another type
C26_Witness ==
    /\ call.pc = "coach_done"
    /\ call.ctx # <<>>
    /\ \E k \in DOMAIN call.entities :
          /\ call.entities[k].type = "person"
          /\ NamedInContext(call.entities[k].name)
          /\ \A c \in DOMAIN call.ctx : \A e \in DOMAIN call.ctx[c].entities :
                call.ctx[c].entities[e].name # call.entities[k].name
          /\ \E r \in DOMAIN call.reminder_insights :
                /\ call.reminder_insights[r].kind = "person"
                /\ call.reminder_insights[r].entity = call.entities[k].name
    /\ \E k \in DOMAIN call.entities :
          /\ call.entities[k].type = "person"
          /\ ~ NamedInContext(call.entities[k].name)
    /\ \E k \in DOMAIN call.entities : call.entities[k].type = "project"
    /\ \E k \in DOMAIN call.entities : call.entities[k].type = "date"

\* the context items of the call, counted by position in the list, whose
\* message contains a keyword of the topic
TopicCount(topic) ==
    Cardinality({ k \in DOMAIN call.ctx :
                    \E kw \in TopicKeywords(topic) :
                        Contains(kw, LowerStr(call.ctx[k].user_message)) })

\* the pattern insights of the call about a topic
PatternsAbout(topic) ==
    SelectSeq(call.pattern_insights, LAMBDA i : i.kind = topic)

\* C27: a topic gets a pattern insight, one, of low priority, exactly when
\* more than 3 items of the context list contain a keyword of the topic, an
\* item counted once per place in the list and once per topic; its frequency
\* is that count; there are no other pattern insights
C27_PatternThreshold ==
    call.pc = "coach_done" =>
        /\ \A t \in DOMAIN Topics :
              IF TopicCount(Topics[t]) > 3
              THEN PatternsAbout(Topics[t]) =
                     << Insight("pattern", "low", Topics[t], "", TopicCount(Topics[t])) >>
              ELSE PatternsAbout(Topics[t]) = <<>>
        /\ \A k \in DOMAIN call.pattern_insights :
              \E t \in DOMAIN Topics : call.pattern_insights[k].kind = Topics[t]

\* four context items of fewer than four conversations, each with two
\* keywords of trabajo: a pattern of frequency 4; personal, in one item, none
C27_Witness ==
    /\ call.pc = "coach_done"
    /\ Len(call.ctx) = 4
    /\ Cardinality({ call.ctx[k].id : k \in DOMAIN call.ctx }) < 4
    /\ \E k \in DOMAIN call.ctx :
          /\ Contains("proyecto", LowerStr(call.ctx[k].user_message))
          /\ Contains("work", LowerStr(call.ctx[k].user_message))
    /\ TopicCount("personal") = 1
    /\ call.pattern_insights = << Insight("pattern", "low", "trabajo", "", 4) >>

---------------------------------------------------------------------------
(* The order of the stages of process_message *)

\* the stage a process_message call is at: 5 save_conversation,
\* 6 _update_entities_and_relationships, 7 generate_insights, 8 returned
StageOf(pc) ==
    CASE pc = "save_conversation" -> 5
      [] pc \in {"se_select", "se_write", "rel"} -> 6
      [] pc = "insights" -> 7
      [] pc = "done" -> 8

\* the caller is inside a process_message call, or has returned from it
AtStage(t) ==
    /\ t.op = "process_message"
    /\ t.pc \in {"save_conversation", "se_select", "se_write", "rel",
                 "insights", "done"}

\* C28: in a process_message call the context is retrieved before the
\* conversation is saved, the conversation is saved before the entities are
\* updated, and the insights come last: the context a call got never holds
\* the conversation whose id the call returns, the call has no conversation
\* id until save_conversation and has one from then on, and every step of
\* the call stays at its stage or moves to the next one (past stage 6 when
\* the message has no entities) with the context unchanged
C28_RetrieveBeforeSave ==
    /\ [](\A p \in Procs :
            AtStage(task[p]) =>
                /\ \A k \in DOMAIN task[p].ctx : task[p].ctx[k].id # task[p].conv_id
                /\ \A k \in DOMAIN task[p].ctx : task[p].ctx[k].id \in ConversationIds
                /\ StageOf(task[p].pc) = 5 <=> task[p].conv_id = NoId
                /\ StageOf(task[p].pc) > 5 => task[p].conv_id \in ConversationIds)
    /\ [][\A p \in Procs :
            (AtStage(task[p]) /\ AtStage(task'[p]) /\ task[p].pc # "done") =>
                /\ task'[p].ctx = task[p].ctx
                /\ \/ StageOf(task'[p].pc) = StageOf(task[p].pc)
                   \/ StageOf(task'[p].pc) = StageOf(task[p].pc) + 1
                   \/ /\ StageOf(task[p].pc) = 5
                      /\ StageOf(task'[p].pc) = 7
                      /\ Messages[task[p].msg].entities = <<>>]_vars

\* a call has returned with a context that is not empty, and the same
\* retrieval on the store as the call left it finds the call's conversation
C28_Witness ==
    \E p \in Procs :
        /\ Completed(p)
        /\ task[p].ctx # <<>>
        /\ \E k \in DOMAIN GetRelevantContext(conversations, task[p].msg, task[p].sid) :
              GetRelevantContext(conversations, task[p].msg, task[p].sid)[k].id
                  = task[p].conv_id

====
